---- MODULE Spec2Model ----
(***************************************************************************)
(* Dynamic ABI codec of base-rs (crates/dyn-abi): DynYlmType, DynYlmValue, *)
(* DynToken, the head/tail decoder, string coercion and the EIP-712        *)
(* struct-hash resolver.  Every operation is a pure function of its        *)
(* inputs; each specification below draws the inputs in Init and applies   *)
(* the operations in its actions.                                          *)
(***************************************************************************)
EXTENDS Integers, Sequences, FiniteSets, TLC

VARIABLES pc, ty, val, data, text, tmap, res, aux

vars == <<pc, ty, val, data, text, tmap, res, aux>>

\* Placeholder for a variable that an operation family does not use.
None == [k |-> "None"]

(***************************************************************************)
(* Generic helpers                                                         *)
(***************************************************************************)
Min(a, b) == IF a < b THEN a ELSE b

Max(a, b) == IF a > b THEN a ELSE b

Range(s) == {s[i] : i \in 1..Len(s)}

\* All sequences over S of length 0..n.
SeqsUpTo(S, n) == UNION {[1..m -> S] : m \in 0..n}

RECURSIVE SumSeq(_)
SumSeq(s) == IF s = <<>> THEN 0 ELSE Head(s) + SumSeq(Tail(s))

Repeat(x, n) == [i \in 1..n |-> x]

RECURSIVE Flatten(_)
Flatten(ss) == IF ss = <<>> THEN <<>> ELSE Head(ss) \o Flatten(Tail(ss))

(***************************************************************************)
(* DynYlmType (dynamic/ty.rs) and DynYlmValue constructors                 *)
(***************************************************************************)
TBool == [k |-> "Bool"]

TInt(n) == [k |-> "Int", size |-> n]

TUint(n) == [k |-> "Uint", size |-> n]

TFixedBytes(n) == [k |-> "FixedBytes", size |-> n]

TAddress == [k |-> "Address"]

TFunction == [k |-> "Function"]

TBytes == [k |-> "Bytes"]

TString == [k |-> "String"]

TArray(t) == [k |-> "Array", inner |-> t]

TFixedArray(t, n) == [k |-> "FixedArray", inner |-> t, size |-> n]

TTuple(ts) == [k |-> "Tuple", elems |-> ts]

TCustomStruct(name, props, ts) ==
    [k |-> "CustomStruct", name |-> name, prop_names |-> props, elems |-> ts]

\* Values.  Int/Uint/FixedBytes/Address/Function carry their 32-byte
\* big-endian word (U256, I256 and Word are 256-bit quantities).
VBool(b) == [k |-> "Bool", v |-> b]

VInt(w, n) == [k |-> "Int", size |-> n, v |-> w]

VUint(w, n) == [k |-> "Uint", size |-> n, v |-> w]

VFixedBytes(w, n) == [k |-> "FixedBytes", size |-> n, v |-> w]

VAddress(w) == [k |-> "Address", v |-> w]

VFunction(w) == [k |-> "Function", v |-> w]

VBytes(bs) == [k |-> "Bytes", v |-> bs]

VString(bs) == [k |-> "String", v |-> bs]

VArray(vs) == [k |-> "Array", v |-> vs]

VFixedArray(vs) == [k |-> "FixedArray", v |-> vs]

VTuple(vs) == [k |-> "Tuple", v |-> vs]

VCustomStruct(name, props, vs) ==
    [k |-> "CustomStruct", name |-> name, prop_names |-> props, v |-> vs]

WordKinds == {"Bool", "Int", "Uint", "FixedBytes", "Address", "Function"}

SizedKinds == {"Int", "Uint", "FixedBytes"}

(***************************************************************************)
(* DynYlmType::matches                                                     *)
(***************************************************************************)
\* core::iter::zip(a, b).all(f): stops at the end of the shorter sequence.
ZipAll(a, b, F(_, _)) == \A i \in 1..Min(Len(a), Len(b)) : F(a[i], b[i])

RECURSIVE matches(_, _)
matches(t, value) ==
    CASE t.k \in {"Bool", "Address", "Function", "Bytes", "String"} ->
            value.k = t.k
      [] t.k \in SizedKinds ->
            value.k = t.k /\ value.size = t.size
      [] t.k = "Array" ->
            value.k = "Array" /\ \A i \in 1..Len(value.v) : matches(t.inner, value.v[i])
      [] t.k = "FixedArray" ->
            /\ value.k = "FixedArray"
            /\ Len(value.v) = t.size
            /\ \A i \in 1..Len(value.v) : matches(t.inner, value.v[i])
      [] t.k = "Tuple" ->
            /\ value.k \in {"Tuple", "CustomStruct"}
            /\ ZipAll(t.elems, value.v, matches)
      [] t.k = "CustomStruct" ->
            IF value.k = "CustomStruct"
            THEN /\ Len(t.prop_names) = Len(t.elems)
                 /\ Len(t.prop_names) = Len(value.prop_names)
                 /\ Len(t.elems) = Len(value.v)
                 /\ ZipAll(t.elems, value.v, matches)
            ELSE IF value.k = "Tuple"
            THEN ZipAll(t.elems, value.v, matches)
            ELSE FALSE

matches_many(types, values) ==
    Len(types) = Len(values) /\ ZipAll(types, values, matches)

(***************************************************************************)
(* Words and bytes                                                         *)
(***************************************************************************)
\* Word::len_bytes()
WordBytes == 32

\* IcanAddress is 22 bytes, Function 24 bytes.
AddressBytes == 22

FunctionBytes == 24

ZeroWord == [i \in 1..WordBytes |-> 0]

Ok(x) == [ok |-> TRUE, v |-> x]

Err(e) == [ok |-> FALSE, err |-> e]

\* Option: Some(x) and None.
Some(x) == [some |-> TRUE, v |-> x]

NoOption == [some |-> FALSE]

\* A panic: the call does not return.
Panic(msg) == [ok |-> FALSE, panic |-> msg]

\* Option::unwrap
unwrap(opt) ==
    IF opt.some THEN Ok(opt.v) ELSE Panic("unwrap on a None value")

\* Big-endian, right-aligned word of a natural number below 2^31.
WordOfNat(n) ==
    [i \in 1..WordBytes |->
        CASE i = 32 -> n % 256
          [] i = 31 -> (n \div 256) % 256
          [] i = 30 -> (n \div 65536) % 256
          [] i = 29 -> (n \div 16777216) % 256
          [] OTHER -> 0]

\* Two's-complement word of -n, for 0 < n <= 2^31 - 1.
WordOfNeg(n) ==
    LET m == n - 1
    IN [i \in 1..WordBytes |->
        CASE i = 32 -> 255 - (m % 256)
          [] i = 31 -> 255 - ((m \div 256) % 256)
          [] i = 30 -> 255 - ((m \div 65536) % 256)
          [] i = 29 -> 255 - ((m \div 16777216) % 256)
          [] OTHER -> 255]

\* Left-aligned, zero-padded word holding the bytes bs (Len(bs) <= 32).
WordLeft(bs) == [i \in 1..WordBytes |-> IF i <= Len(bs) THEN bs[i] ELSE 0]

\* Right-aligned, zero-padded word holding the bytes bs.
WordRight(bs) ==
    [i \in 1..WordBytes |->
        IF i > WordBytes - Len(bs) THEN bs[i - (WordBytes - Len(bs))] ELSE 0]

\* utils::as_offset with validate = false: the low 32 bits of the word.
\* Values of 2^31 and above are held as 2^31 - 1: both exceed every buffer
\* length of the model, and they are only ever compared with such lengths.
as_offset(w) ==
    IF w[29] >= 128 THEN 2147483647
    ELSE w[29] * 16777216 + w[30] * 65536 + w[31] * 256 + w[32]

\* utils::next_multiple_of_32
next_multiple_of_32(n) == ((n + 31) \div 32) * 32

(***************************************************************************)
(* DynYlmType: is_zst, zero_sized_value, minimum_words, empty_dyn_token    *)
(***************************************************************************)
RECURSIVE is_zst(_)
is_zst(t) ==
    CASE t.k = "Array" -> is_zst(t.inner)
      [] t.k = "FixedArray" -> t.size = 0 \/ is_zst(t.inner)
      [] t.k = "Tuple" ->
            t.elems = <<>> \/ \A i \in 1..Len(t.elems) : is_zst(t.elems[i])
      [] OTHER -> FALSE

\* Option<DynYlmValue>: None is the model's None.
zero_sized_value(t) ==
    CASE t.k = "Array" -> VArray(<<>>)
      [] t.k = "FixedArray" -> VFixedArray(<<>>)
      [] t.k = "Tuple" -> VTuple(<<>>)
      [] OTHER -> None

RECURSIVE minimum_words(_)
minimum_words(t) ==
    CASE t.k = "FixedArray" -> t.size * minimum_words(t.inner)
      [] t.k \in {"Tuple", "CustomStruct"} ->
            SumSeq([i \in 1..Len(t.elems) |-> minimum_words(t.elems[i])])
      [] OTHER -> 1

\* DynToken constructors.
TokWord(w) == [k |-> "Word", w |-> w]

TokPackedSeq(bs) == [k |-> "PackedSeq", buf |-> bs]

TokFixedSeq(toks, n) == [k |-> "FixedSeq", contents |-> toks, len |-> n]

TokDynSeq(toks, template) == [k |-> "DynSeq", contents |-> toks, template |-> template]

RECURSIVE empty_dyn_token(_)
empty_dyn_token(t) ==
    CASE t.k \in WordKinds -> TokWord(ZeroWord)
      [] t.k \in {"Bytes", "String"} -> TokPackedSeq(<<>>)
      [] t.k = "Array" -> TokDynSeq(<<>>, empty_dyn_token(t.inner))
      [] t.k = "FixedArray" ->
            TokFixedSeq(Repeat(empty_dyn_token(t.inner), t.size), t.size)
      [] t.k \in {"Tuple", "CustomStruct"} ->
            TokFixedSeq([i \in 1..Len(t.elems) |-> empty_dyn_token(t.elems[i])],
                        Len(t.elems))

(***************************************************************************)
(* String::from_utf8_lossy, used by ylm_data::String::detokenize           *)
(***************************************************************************)
IsCont(b) == b >= 128 /\ b <= 191

\* U+FFFD REPLACEMENT CHARACTER in UTF-8.
Replacement == <<239, 191, 189>>

\* Length of the valid UTF-8 scalar at the head of bs, or the negated length
\* of the maximal invalid prefix.
Utf8Step(bs) ==
    LET b1 == bs[1]
        n == Len(bs)
        c(i) == i <= n /\ IsCont(bs[i])
        second(lo, hi) == n >= 2 /\ bs[2] >= lo /\ bs[2] <= hi
    IN CASE b1 < 128 -> 1
         [] b1 >= 194 /\ b1 <= 223 -> IF c(2) THEN 2 ELSE -1
         [] b1 >= 224 /\ b1 <= 239 ->
               LET lo == IF b1 = 224 THEN 160 ELSE 128
                   hi == IF b1 = 237 THEN 159 ELSE 191
               IN IF ~second(lo, hi) THEN -1 ELSE IF c(3) THEN 3 ELSE -2
         [] b1 >= 240 /\ b1 <= 244 ->
               LET lo == IF b1 = 240 THEN 144 ELSE 128
                   hi == IF b1 = 244 THEN 143 ELSE 191
               IN IF ~second(lo, hi) THEN -1
                  ELSE IF ~c(3) THEN -2 ELSE IF c(4) THEN 4 ELSE -3
         [] OTHER -> -1

RECURSIVE from_utf8_lossy(_)
from_utf8_lossy(bs) ==
    IF bs = <<>> THEN <<>>
    ELSE LET st == Utf8Step(bs)
         IN IF st > 0
            THEN SubSeq(bs, 1, st) \o from_utf8_lossy(SubSeq(bs, st + 1, Len(bs)))
            ELSE Replacement \o from_utf8_lossy(SubSeq(bs, 1 - st, Len(bs)))

(***************************************************************************)
(* DynYlmType::detokenize                                                  *)
(***************************************************************************)
RECURSIVE detokenize(_, _)
detokenize_array(t, tokens) ==
    LET rs == [i \in 1..Len(tokens) |-> detokenize(t, tokens[i])]
    IN IF \E i \in 1..Len(rs) : ~rs[i].ok
       THEN rs[CHOOSE i \in 1..Len(rs) : ~rs[i].ok /\ \A j \in 1..(i - 1) : rs[j].ok]
       ELSE Ok([i \in 1..Len(rs) |-> rs[i].v])

\* assert_eq!(types.len(), tokens.len()) holds at both call sites.
detokenize_many(types, tokens) ==
    LET rs == [i \in 1..Min(Len(types), Len(tokens)) |-> detokenize(types[i], tokens[i])]
    IN IF \E i \in 1..Len(rs) : ~rs[i].ok
       THEN rs[CHOOSE i \in 1..Len(rs) : ~rs[i].ok /\ \A j \in 1..(i - 1) : rs[j].ok]
       ELSE Ok([i \in 1..Len(rs) |-> rs[i].v])

detokenize(t, token) ==
    CASE t.k = "Bool" /\ token.k = "Word" -> Ok(VBool(token.w # ZeroWord))
      [] t.k = "Int" /\ token.k = "Word" -> Ok(VInt(token.w, t.size))
      [] t.k = "Uint" /\ token.k = "Word" -> Ok(VUint(token.w, t.size))
      [] t.k = "FixedBytes" /\ token.k = "Word" -> Ok(VFixedBytes(token.w, t.size))
      [] t.k = "Address" /\ token.k = "Word" ->
            Ok(VAddress(SubSeq(token.w, WordBytes - AddressBytes + 1, WordBytes)))
      [] t.k = "Function" /\ token.k = "Word" ->
            Ok(VFunction(SubSeq(token.w, 1, FunctionBytes)))
      [] t.k = "Bytes" /\ token.k = "PackedSeq" -> Ok(VBytes(token.buf))
      [] t.k = "String" /\ token.k = "PackedSeq" -> Ok(VString(from_utf8_lossy(token.buf)))
      [] t.k = "Array" /\ token.k = "DynSeq" ->
            LET r == detokenize_array(t.inner, token.contents)
            IN IF r.ok THEN Ok(VArray(r.v)) ELSE r
      [] t.k = "FixedArray" /\ token.k = "FixedSeq" ->
            IF t.size # Len(token.contents)
            THEN Err("array length mismatch on dynamic detokenization")
            ELSE LET r == detokenize_array(t.inner, token.contents)
                 IN IF r.ok THEN Ok(VFixedArray(r.v)) ELSE r
      [] t.k = "Tuple" /\ token.k = "FixedSeq" ->
            IF Len(t.elems) # Len(token.contents)
            THEN Err("tuple length mismatch on dynamic detokenization")
            ELSE LET r == detokenize_many(t.elems, token.contents)
                 IN IF r.ok THEN Ok(VTuple(r.v)) ELSE r
      [] t.k = "CustomStruct" /\ token.k = "FixedSeq" ->
            IF token.len # Len(token.contents) \/ token.len # Len(t.elems)
            THEN Err("custom length mismatch on dynamic detokenization")
            ELSE LET r == detokenize_many(t.elems, token.contents)
                 IN IF r.ok THEN Ok(VCustomStruct(t.name, t.prop_names, r.v)) ELSE r
      [] OTHER -> Err("mismatched types on dynamic detokenization")

(***************************************************************************)
(* abi::Decoder: a cursor over the input with a nesting-depth counter       *)
(***************************************************************************)
\* abi::RECURSION_LIMIT
RECURSION_LIMIT == 16

\* Decoder::new(data, false)
DecoderNew(buf) == [buf |-> buf, offset |-> 0, depth |-> 0]

remaining_words(dec) ==
    IF Len(dec.buf) >= dec.offset THEN (Len(dec.buf) - dec.offset) \div WordBytes ELSE 0

\* A child that lets the depth pass the limit by one level.
child_past_limit(dec, offset) ==
    IF dec.depth > RECURSION_LIMIT THEN Err("RecursionLimitExceeded")
    ELSE IF offset > Len(dec.buf) THEN Err("Overrun")
    ELSE Ok([buf |-> SubSeq(dec.buf, offset + 1, Len(dec.buf)),
             offset |-> 0, depth |-> dec.depth + 1])

\* Decoder::child: a decoder over buf[offset..], one level deeper.
child(dec, offset) ==
    IF dec.depth >= RECURSION_LIMIT THEN Err("RecursionLimitExceeded")
    ELSE IF offset > Len(dec.buf) THEN Err("Overrun")
    ELSE Ok([buf |-> SubSeq(dec.buf, offset + 1, Len(dec.buf)),
             offset |-> 0, depth |-> dec.depth + 1])

raw_child(dec) == child(dec, dec.offset)

\* Decoder::take_word: [ok, v, dec] with dec advanced by one word.
take_word(dec) ==
    IF dec.offset + WordBytes > Len(dec.buf) THEN Err("Overrun")
    ELSE [ok |-> TRUE,
          v |-> SubSeq(dec.buf, dec.offset + 1, dec.offset + WordBytes),
          dec |-> [dec EXCEPT !.offset = @ + WordBytes]]

take_offset(dec) ==
    LET r == take_word(dec)
    IN IF r.ok THEN [r EXCEPT !.v = as_offset(@)] ELSE r

\* take_indirection after the offset word r: the child at that offset.
child_at(r) ==
    IF ~r.ok THEN r
    ELSE LET c == child(r.dec, r.v)
         IN IF c.ok THEN [ok |-> TRUE, v |-> c.v, dec |-> r.dec] ELSE c

\* Decoder::take_indirection: [ok, v (the child), dec (the advanced parent)].
take_indirection(dec) == child_at(take_offset(dec))

peek_len(dec, len) ==
    IF dec.offset > Len(dec.buf) \/ len > Len(dec.buf) - dec.offset THEN Err("Overrun")
    ELSE Ok(SubSeq(dec.buf, dec.offset + 1, dec.offset + len))

\* Decoder::take_offset_from(child), after a raw_child of the parent.
take_offset_from(dec, ch) ==
    [dec EXCEPT !.offset = ch.offset + (Len(dec.buf) - Len(ch.buf))]

(***************************************************************************)
(* DynToken: is_dynamic, minimum_words, decode_populate                    *)
(***************************************************************************)
RECURSIVE token_is_dynamic(_)
token_is_dynamic(tok) ==
    CASE tok.k = "Word" -> FALSE
      [] tok.k = "FixedSeq" ->
            \E i \in 1..Len(tok.contents) : token_is_dynamic(tok.contents[i])
      [] OTHER -> TRUE

RECURSIVE token_minimum_words(_)
token_minimum_words(tok) ==
    CASE tok.k = "FixedSeq" ->
            SumSeq([i \in 1..Len(tok.contents) |-> token_minimum_words(tok.contents[i])])
      [] OTHER -> 1

\* Observations of one decode call, threaded through the recursion:
\*   maxd   deepest Decoder created,
\*   alloc  largest element vector allocated for a dynamic sequence,
\*   limit  whether Decoder::child refused to go below RECURSION_LIMIT.
Obs0 == [maxd |-> 0, alloc |-> 0, limit |-> FALSE]

ObsChild(g, r, parent) ==
    IF r.ok THEN [g EXCEPT !.maxd = Max(@, r.v.depth)]
    ELSE IF r.err = "RecursionLimitExceeded" /\ parent.depth >= RECURSION_LIMIT
    THEN [g EXCEPT !.limit = TRUE]
    ELSE g

Fail(e, g) == [ok |-> FALSE, err |-> e, g |-> g]

\* r < n * m, without forming the product (r, n, m >= 0).
Exceeds(n, m, r) == m > 0 /\ n > r \div m

RECURSIVE decode_populate(_, _, _)
RECURSIVE populate_each(_, _, _, _, _)

\* try_for_each after item i was populated with result r.
populate_rest(toks, i, n, r) ==
    IF ~r.ok THEN r
    ELSE populate_each([toks EXCEPT ![i] = r.tok], i + 1, n, r.dec, r.g)

\* iter_mut().take(n).try_for_each(|item| item.decode_populate(dec))
populate_each(toks, i, n, dec, g) ==
    IF i > n \/ i > Len(toks) THEN [ok |-> TRUE, toks |-> toks, dec |-> dec, g |-> g]
    ELSE populate_rest(toks, i, n, decode_populate(toks[i], dec, g))

\* A sequence token with the contents that populate_each filled in.
populated_seq(tok, r, dec) ==
    IF ~r.ok THEN r
    ELSE [ok |-> TRUE, tok |-> [tok EXCEPT !.contents = r.toks], dec |-> dec, g |-> r.g]

\* The child decoder of a FixedSeq: an indirection when dynamic, else in place.
seq_child(dec, dynamic, rc) ==
    IF dynamic THEN take_indirection(dec)
    ELSE IF rc.ok THEN [ok |-> TRUE, v |-> rc.v, dec |-> dec] ELSE rc

\* decode_populate of a PackedSeq, c the result of take_indirection.
populate_packed(dec, g1, c) ==
    IF ~c.ok THEN Fail(c.err, g1)
    ELSE LET l == take_offset(c.v)
         IN IF ~l.ok THEN Fail(l.err, g1)
            ELSE LET b == peek_len(l.dec, l.v)
                 IN IF ~b.ok THEN Fail(b.err, g1)
                    ELSE [ok |-> TRUE, tok |-> TokPackedSeq(b.v), dec |-> c.dec, g |-> g1]

\* decode_populate of a FixedSeq, c the child decoder.
populate_fixed(tok, dec, g1, dynamic, c) ==
    IF ~c.ok THEN Fail(c.err, g1)
    ELSE LET r == populate_each(tok.contents, 1, tok.len, c.v, g1)
         IN populated_seq(tok, r, IF dynamic THEN c.dec ELSE take_offset_from(dec, r.dec))

\* decode_populate of a DynSeq with size word s, cc the child past that word.
populate_elements(tok, c, s, g2, cc) ==
    IF ~cc.ok THEN Fail(cc.err, g2)
    ELSE IF Exceeds(s.v, token_minimum_words(tok.template), remaining_words(cc.v))
    THEN Fail("Overrun", g2)
    ELSE LET r == populate_each(Repeat(tok.template, s.v), 1, s.v, cc.v,
                                [g2 EXCEPT !.alloc = Max(@, s.v)])
         IN IF ~r.ok THEN r
            ELSE [ok |-> TRUE, tok |-> TokDynSeq(r.toks, None), dec |-> c.dec, g |-> r.g]

\* decode_populate of a DynSeq, c the child decoder and s its size word.
populate_sized(tok, g1, c, s) ==
    IF ~s.ok THEN Fail(s.err, g1)
    ELSE IF s.v = 0 THEN [ok |-> TRUE, tok |-> tok, dec |-> c.dec, g |-> g1]
    ELSE populate_elements(tok, c, s, ObsChild(g1, raw_child(s.dec), s.dec),
                           raw_child(s.dec))

\* decode_populate of a DynSeq, c the result of take_indirection.
populate_dyn(tok, g1, c) ==
    IF ~c.ok THEN Fail(c.err, g1) ELSE populate_sized(tok, g1, c, take_offset(c.v))

decode_populate(tok, dec, g) ==
    CASE tok.k = "Word" ->
            LET r == take_word(dec)
            IN IF ~r.ok THEN Fail(r.err, g)
               ELSE [ok |-> TRUE, tok |-> TokWord(r.v), dec |-> r.dec, g |-> g]
      [] tok.k = "PackedSeq" ->
            populate_packed(dec, ObsChild(g, take_indirection(dec), dec),
                            take_indirection(dec))
      [] tok.k = "FixedSeq" ->
            LET c == seq_child(dec, token_is_dynamic(tok), raw_child(dec))
            IN populate_fixed(tok, dec, ObsChild(g, c, dec), token_is_dynamic(tok), c)
      [] tok.k = "DynSeq" ->
            populate_dyn(tok, ObsChild(g, take_indirection(dec), dec),
                         take_indirection(dec))

decode_single_populate(tok, dec, g) == decode_populate(tok, dec, g)

decode_sequence_populate(tok, dec, g) ==
    CASE tok.k = "FixedSeq" ->
            LET r == populate_each(tok.contents, 1, tok.len, dec, g)
            IN populated_seq(tok, r, r.dec)
      [] tok.k = "DynSeq" -> decode_populate(tok, dec, g)
      [] OTHER -> Fail("Called decode_sequence_populate on non-sequence token", g)

(***************************************************************************)
(* DynYlmType::abi_decode_inner, abi_decode, abi_decode_sequence,          *)
(* abi_decode_params                                                       *)
(***************************************************************************)
\* The call's outcome: res is the Result returned (a failed expect is the
\* error "panic"); built tells whether empty_dyn_token ran; offset is the
\* decoder's cursor afterwards; g the observations above.
Outcome(r, built, offset, g) == [res |-> r, built |-> built, offset |-> offset, g |-> g]

\* The token populated as a sequence or as a single value.
populate(token, dec, sequence) ==
    IF sequence THEN decode_sequence_populate(token, dec, Obs0)
    ELSE decode_single_populate(token, dec, Obs0)

\* The value detokenized from the populated token r.
detokenized(t, dec, r) ==
    IF ~r.ok THEN Outcome(Err(r.err), TRUE, dec.offset, r.g)
    ELSE LET value == detokenize(t, r.tok)
         IN Outcome(IF value.ok THEN value ELSE Err("panic"), TRUE, r.dec.offset, r.g)

\* The zero-sized shortcut: no token is built and nothing is read.
shortcut(t, dec) ==
    LET z == zero_sized_value(t)
    IN Outcome(IF z = None THEN Err("panic") ELSE Ok(z), FALSE, dec.offset, Obs0)

\* A decode that checks the minimum size before the zero-sized shortcut.
abi_decode_inner_size_first(t, dec, sequence) ==
    IF remaining_words(dec) < minimum_words(t)
    THEN Outcome(Err("Overrun"), FALSE, dec.offset, Obs0)
    ELSE IF is_zst(t) THEN shortcut(t, dec)
    ELSE detokenized(t, dec, populate(empty_dyn_token(t), dec, sequence))

\* A decode whose size check lets an input one word too short through.
abi_decode_inner_one_short(t, dec, sequence) ==
    IF is_zst(t) THEN shortcut(t, dec)
    ELSE IF remaining_words(dec) + 1 < minimum_words(t)
    THEN Outcome(Err("Overrun"), FALSE, dec.offset, Obs0)
    ELSE detokenized(t, dec, populate(empty_dyn_token(t), dec, sequence))

abi_decode_inner(t, dec, sequence) ==
    IF is_zst(t) THEN shortcut(t, dec)
    ELSE IF remaining_words(dec) < minimum_words(t)
    THEN Outcome(Err("Overrun"), FALSE, dec.offset, Obs0)
    ELSE detokenized(t, dec, populate(empty_dyn_token(t), dec, sequence))

abi_decode(t, input) == abi_decode_inner(t, DecoderNew(input), FALSE)

abi_decode_sequence(t, input) == abi_decode_inner(t, DecoderNew(input), TRUE)

abi_decode_params(t, input) ==
    IF t.k = "Tuple" THEN abi_decode_sequence(t, input) ELSE abi_decode(t, input)

(***************************************************************************)
(* DynYlmValue: is_dynamic, tokenize, abi_encode, abi_encode_params        *)
(* (head/tail encoding)                                                    *)
(***************************************************************************)
RECURSIVE tokenize(_)
tokenize(value) ==
    CASE value.k = "Bool" -> TokWord(WordOfNat(IF value.v THEN 1 ELSE 0))
      [] value.k \in SizedKinds -> TokWord(value.v)
      [] value.k = "Address" -> TokWord(WordRight(value.v))
      [] value.k = "Function" -> TokWord(WordLeft(value.v))
      [] value.k \in {"Bytes", "String"} -> TokPackedSeq(value.v)
      [] value.k = "Array" ->
            TokDynSeq([i \in 1..Len(value.v) |-> tokenize(value.v[i])], None)
      [] value.k \in {"FixedArray", "Tuple", "CustomStruct"} ->
            TokFixedSeq([i \in 1..Len(value.v) |-> tokenize(value.v[i])], Len(value.v))

PadRight(bs) == bs \o [i \in 1..(next_multiple_of_32(Len(bs)) - Len(bs)) |-> 0]

RECURSIVE head_words(_)
head_words(tok) ==
    CASE tok.k = "FixedSeq" /\ ~token_is_dynamic(tok) ->
            SumSeq([i \in 1..Len(tok.contents) |-> head_words(tok.contents[i])])
      [] OTHER -> 1

RECURSIVE tail_append(_)
RECURSIVE encode_sequence(_)
RECURSIVE head_append(_, _)

tail_words(tok) == Len(tail_append(tok)) \div WordBytes

\* The head slot(s) of tok when its tail, if any, starts at byte offset off.
head_append(tok, off) ==
    CASE tok.k = "Word" -> tok.w
      [] tok.k = "FixedSeq" /\ ~token_is_dynamic(tok) ->
            Flatten([i \in 1..Len(tok.contents) |-> head_append(tok.contents[i], 0)])
      [] OTHER -> WordOfNat(off)

tail_append(tok) ==
    CASE tok.k = "PackedSeq" -> WordOfNat(Len(tok.buf)) \o PadRight(tok.buf)
      [] tok.k = "DynSeq" -> WordOfNat(Len(tok.contents)) \o encode_sequence(tok.contents)
      [] tok.k = "FixedSeq" /\ token_is_dynamic(tok) -> encode_sequence(tok.contents)
      [] OTHER -> <<>>

encode_sequence(toks) ==
    LET n == Len(toks)
        heads == SumSeq([i \in 1..n |-> head_words(toks[i])]) * WordBytes
        tails == [i \in 1..n |-> tail_append(toks[i])]
        off(i) == heads + SumSeq([j \in 1..(i - 1) |-> Len(tails[j])])
    IN Flatten([i \in 1..n |-> head_append(toks[i], off(i))]) \o Flatten(tails)

\* An encoding that puts an offset word in front of every value.
abi_encode_indirect(value) == WordOfNat(WordBytes) \o encode_sequence(<<tokenize(value)>>)

abi_encode(value) == encode_sequence(<<tokenize(value)>>)

abi_encode_params(value) ==
    IF value.k = "Tuple" THEN encode_sequence(tokenize(value).contents)
    ELSE abi_encode(value)

(***************************************************************************)
(* coerce.rs: coerce_str and the parsers of bool, int and uint.  Text is a *)
(* string; a parser returns [ok, v, rest] or an error.  Numbers saturate   *)
(* at Huge, which no width of the model can hold.                          *)
(***************************************************************************)
Huge == 2^30

Parsed(x, rest) == [ok |-> TRUE, v |-> x, rest |-> rest]

Char(s, i) == SubSeq(s, i, i)

Drop(s, n) == SubSeq(s, n + 1, Len(s))

Take(s, n) == SubSeq(s, 1, n)

DecChars == "0123456789"

HexChars == "0123456789abcdef"

UpperHexChars == "0123456789ABCDEF"

AlphaChars == "abcdefghijklmnopqrstuvwxyzABCDEFGHIJKLMNOPQRSTUVWXYZ"

\* The set of the characters of a string.
CharsOf(chars) == {Char(chars, i) : i \in 1..Len(chars)}

DecSet == CharsOf(DecChars)

HexSet == CharsOf(HexChars) \cup CharsOf(UpperHexChars)

AlphaSet == CharsOf(AlphaChars)


SpaceSet == {" ", "\t"}

HexValue == [c \in HexSet |->
    IF \E i \in 1..16 : Char(HexChars, i) = c
    THEN (CHOOSE i \in 1..16 : Char(HexChars, i) = c) - 1
    ELSE (CHOOSE i \in 1..16 : Char(UpperHexChars, i) = c) - 1]

\* The length of the longest prefix of s, from position i, in the set chars.
PrefixLen(s, i, chars) ==
    IF \E j \in i..Len(s) : Char(s, j) \notin chars
    THEN (CHOOSE j \in i..Len(s) :
             Char(s, j) \notin chars /\ \A h \in i..(j - 1) : Char(s, h) \in chars) - 1
    ELSE Max(Len(s), i - 1)

\* checked_mul and checked_add, saturating at Huge.
SatMul(a, b) == IF a = 0 \/ b = 0 THEN 0 ELSE IF a > Huge \div b THEN Huge ELSE Min(a * b, Huge)

SatAdd(a, b) == Min(a + b, Huge)

\* 10usize.pow(n), saturating at Huge: 10^9 is the last power below it.
Pow10(n) == IF n > 9 THEN Huge ELSE 10^n

\* U256::bit_len: the number of powers of two that are at most n (n <= Huge).
bit_len(n) == Cardinality({b \in 0..30 : 2^b <= n})

\* U256::from_str_radix
RECURSIVE from_str_radix_acc(_, _, _)
from_str_radix_acc(s, radix, acc) ==
    CASE s = "" -> Ok(acc)
      [] s # "" /\ Char(s, 1) = "_" -> from_str_radix_acc(Drop(s, 1), radix, acc)
      [] s # "" /\ Char(s, 1) # "_"
            /\ (Char(s, 1) \notin HexSet \/ HexValue[Char(s, 1)] >= radix) ->
           Err("InvalidDigit")
      [] OTHER ->
           CHOOSE r \in {from_str_radix_acc(rest, radix, next) :
                             rest \in {Drop(s, 1)},
                             next \in {SatAdd(SatMul(acc, radix), HexValue[Char(s, 1)])}} :
               TRUE

from_str_radix(s, radix) == from_str_radix_acc(s, radix, 0)

\* <U256 as FromStr>::from_str: the radix follows the prefix.
HasPrefix(s, prefixes) == Len(s) >= 2 /\ Take(s, 2) \in prefixes

uint_from_str(s) ==
    CASE HasPrefix(s, {"0x", "0X"}) -> from_str_radix(Drop(s, 2), 16)
      [] HasPrefix(s, {"0o", "0O"}) -> from_str_radix(Drop(s, 2), 8)
      [] HasPrefix(s, {"0b", "0B"}) -> from_str_radix(Drop(s, 2), 2)
      [] OTHER -> from_str_radix(s, 10)

digit1(s) ==
    LET n == PrefixLen(s, 1, DecSet)
    IN IF n = 0 THEN Err("parse") ELSE Parsed(Take(s, n), Drop(s, n))

hex_digit1(s) ==
    LET n == PrefixLen(s, 1, HexSet)
    IN IF n = 0 THEN Err("parse") ELSE Parsed(Take(s, n), Drop(s, n))

space0(s) == Drop(s, PrefixLen(s, 1, SpaceSet))

bool(s) ==
    LET n == PrefixLen(s, 1, AlphaSet)
        word == Take(s, n)
    IN CASE word = "true" -> Parsed(TRUE, Drop(s, n))
         [] word = "false" -> Parsed(FALSE, Drop(s, n))
         [] OTHER -> Err("parse")

\* winnow's hex_digit0: the possibly empty run of hex digits.
hex_digit0(s) == Parsed(Take(s, PrefixLen(s, 1, HexSet)), Drop(s, PrefixLen(s, 1, HexSet)))

\* hex::decode on a string of hex digits: the length is checked first.
hex_decode(digits) ==
    IF Len(digits) % 2 = 1 THEN Err("OddLength")
    ELSE Ok([i \in 1..(Len(digits) \div 2) |->
                16 * HexValue[Char(digits, 2 * i - 1)] + HexValue[Char(digits, 2 * i)]])

\* hex::decode_to_slice into a slice of len bytes.
hex_decode_to_slice(digits, len) ==
    IF Len(digits) % 2 = 1 THEN Err("OddLength")
    ELSE IF Len(digits) \div 2 # len THEN Err("InvalidStringLength")
    ELSE hex_decode(digits)

\* opt("0x"): only the lower-case prefix is taken.
opt_0x(s) == Len(s) >= 2 /\ Take(s, 2) = "0x"

hex_str_any_empty(s) == hex_digit0(IF opt_0x(s) THEN Drop(s, 2) ELSE s)

hex_str(s) ==
    IF ~opt_0x(s) /\ hex_digit0(s).v = "" THEN Err("EmptyHexStringWithoutPrefix")
    ELSE hex_digit0(IF opt_0x(s) THEN Drop(s, 2) ELSE s)

\* Parser::try_map: the mapped value, or the error of the map.
try_map(r, mapped) ==
    IF ~r.ok THEN r
    ELSE IF ~mapped.ok THEN mapped
    ELSE Parsed(mapped.v, r.rest)

bytes(s) == try_map(hex_str(s), hex_decode(hex_str(s).v))

fixed_bytes(len, s) ==
    IF len > WordBytes THEN Err("InvalidFixedBytesLength")
    ELSE try_map(hex_str(s), hex_decode_to_slice(hex_str(s).v, len))

int_sign(s) ==
    CASE s # "" /\ Char(s, 1) = "+" -> Parsed("Positive", Drop(s, 1))
      [] s # "" /\ Char(s, 1) = "-" -> Parsed("Negative", Drop(s, 1))
      [] OTHER -> Parsed("Positive", s)

prefixed_int(s) ==
    IF HasPrefix(s, {"0b", "0B", "0o", "0O", "0x", "0X"})
    THEN hex_digit1(Drop(s, 2))
    ELSE digit1(s)

int_units(s) ==
    LET n == PrefixLen(s, 1, AlphaSet)
        word == Take(s, n)
    IN CASE word = "ether" -> Parsed(18, Drop(s, n))
         [] word \in {"gwei", "nano", "nanoether"} -> Parsed(9, Drop(s, n))
         [] word \in {"", "wei"} -> Parsed(0, Drop(s, n))
         [] OTHER -> Err("parse")

\* A value that scales by the whole unit exponent after a fraction.
uint_value_unit_scaled(hasFract, whole, fract, fract_uint, plain, units) ==
    IF hasFract
    THEN IF units = 0 /\ fract_uint.v # 0 THEN Err("FractionalNotAllowed")
         ELSE IF Len(fract) > units THEN Err("TooManyDecimals")
         ELSE IF ~whole.ok THEN Err("parse")
         ELSE Ok(SatMul(SatAdd(SatMul(whole.v, Pow10(Len(fract))), fract_uint.v),
                        Pow10(units)))
    ELSE IF ~plain.ok THEN Err("parse")
    ELSE Ok(SatMul(plain.v, Pow10(units)))

\* uint(len), the value: whole and fraction scaled by the units, or the span
\* of the integer part read as a number and scaled.
uint_value(hasFract, whole, fract, fract_uint, plain, units) ==
    IF hasFract
    THEN IF units = 0 /\ fract_uint.v # 0 THEN Err("FractionalNotAllowed")
         ELSE IF Len(fract) > units THEN Err("TooManyDecimals")
         ELSE IF ~whole.ok THEN Err("parse")
         ELSE Ok(SatMul(SatAdd(SatMul(whole.v, Pow10(Len(fract))), fract_uint.v),
                        Pow10(units - Len(fract))))
    ELSE IF ~plain.ok THEN Err("parse")
    ELSE Ok(SatMul(plain.v, Pow10(units)))

\* An end of uint(len) that accepts a value of any width.
uint_unchecked(len, value, rest) ==
    IF ~value.ok THEN value ELSE Parsed(value.v, rest)

\* uint(len), the end: the value must fit in len bits.
uint_checked(len, value, rest) ==
    IF ~value.ok THEN value
    ELSE IF bit_len(value.v) > len THEN Err("IntOverflow")
    ELSE Parsed(value.v, rest)

\* uint(len) after the integer part ip, the fraction fp and the units un.
uint_units(len, s, ip, hasFract, fp, un) ==
    IF ~un.ok THEN un
    ELSE uint_checked(len,
                      uint_value(hasFract, from_str_radix(ip.v, 10), fp.v,
                                 from_str_radix(fp.v, 10),
                                 uint_from_str(Take(s, Len(s) - Len(fp.rest))), un.v),
                      un.rest)

\* uint(len) after the integer part ip and the fraction fp.
uint_fract(len, s, ip, hasFract, fp) ==
    IF ~fp.ok THEN fp
    ELSE uint_units(len, s, ip, hasFract, fp, int_units(space0(fp.rest)))

\* uint(len) after the integer part ip.
uint_int(len, s, ip) ==
    IF ~ip.ok THEN ip
    ELSE IF ip.rest # "" /\ Char(ip.rest, 1) = "."
    THEN uint_fract(len, s, ip, TRUE, digit1(Drop(ip.rest, 1)))
    ELSE uint_fract(len, s, ip, FALSE, Parsed("", ip.rest))

\* uint(len): the integer part, an optional fraction, optional units.
uint(len, s) == uint_int(len, s, prefixed_int(s))

\* I256::checked_from_sign_and_abs, as the 32-byte two's-complement word.
checked_from_sign_and_abs(sign, abs) ==
    IF sign = "Negative" /\ abs > 0 THEN WordOfNeg(abs) ELSE WordOfNat(abs)

\* int(size) after the sign sg and the magnitude abs.
int_signed(size, sg, abs) ==
    IF ~abs.ok THEN abs
    ELSE IF sg.v # "Negative" /\ bit_len(abs.v) > size - 1 THEN Err("IntOverflow")
    ELSE Parsed(checked_from_sign_and_abs(sg.v, abs.v), abs.rest)

int(size, s) == int_signed(size, int_sign(s), uint(size, int_sign(s).rest))

\* No enclosing list: ValueParser::list_end is None.
NoList == ""

WhiteSet == {" ", "\t", "\n", "\r"}

\* str::trim_end
RECURSIVE trim_end(_)
trim_end(s) ==
    IF s # "" /\ Char(s, Len(s)) \in WhiteSet THEN trim_end(Take(s, Len(s) - 1)) ELSE s

\* take_while(.., |c| !stops.contains(c)): the length of the longest prefix
\* of s, from position i, with no character of stops.
RECURSIVE PrefixLenUntil(_, _, _)
PrefixLenUntil(s, i, stops) ==
    IF i <= Len(s) /\ Char(s, i) \notin stops THEN PrefixLenUntil(s, i + 1, stops) ELSE i - 1

StartsWith(s, c) == s # "" /\ Char(s, 1) = c

quoted_trimmed(delim, body, n) ==
    IF n = Len(body) THEN Err("parse")
    ELSE Parsed(trim_end(Take(body, n)), Drop(body, n + 1))

\* string after an opening quote delim: everything up to the same quote,
\* which must be there.
quoted(delim, body, n) ==
    IF n = Len(body) THEN Err("parse") ELSE Parsed(Take(body, n), Drop(body, n + 1))

\* string without a quote inside a list: at least one character, up to the
\* next ',' or list_end, trimmed at the end.
unquoted(s, n) ==
    IF n = 0 THEN Err("parse") ELSE Parsed(trim_end(Take(s, n)), Drop(s, n))

\* ValueParser::string
string(list_end, s) ==
    IF s = "" THEN Parsed("", "")
    ELSE IF Char(s, 1) \in {"\"", "'"}
    THEN quoted(Char(s, 1), Drop(s, 1), PrefixLenUntil(Drop(s, 1), 1, {Char(s, 1)}))
    ELSE IF list_end # NoList THEN unquoted(s, PrefixLenUntil(s, 1, {",", list_end}))
    ELSE Parsed(trim_end(s), "")

RECURSIVE parse_next(_, _, _)
RECURSIVE separated_more(_, _, _, _)
RECURSIVE tuple_items(_, _, _, _)

\* separated(..) after a separator: the next element, or the list so far
\* with the input put back before the separator.
separated_next(t, list_end, acc, s, r) ==
    IF r.ok THEN separated_more(t, list_end, Append(acc, r.v), r.rest)
    ELSE Parsed(acc, s)

\* separated(..) after an element: a ',' and spaces, then another element.
separated_more(t, list_end, acc, s) ==
    IF StartsWith(s, ",")
    THEN separated_next(t, list_end, acc, s, parse_next(t, list_end, space0(Drop(s, 1))))
    ELSE Parsed(acc, s)

\* separated(0.., element, (',', space0))
separated_first(t, list_end, s, r) ==
    IF r.ok THEN separated_more(t, list_end, <<r.v>>, r.rest) ELSE Parsed(<<>>, s)

\* The end of a list: an optional ',', spaces and the closing character.
list_close(close, acc, s) ==
    IF StartsWith(s, close) THEN Parsed(acc, Drop(s, 1)) ELSE Err("parse")

list_end_of(close, items) ==
    list_close(close, items.v,
               space0(IF StartsWith(items.rest, ",") THEN Drop(items.rest, 1)
                      ELSE items.rest))

\* parser::utils::array_parser: '[', spaces, elements separated by ',' and
\* spaces, an optional ',', spaces, ']'.
array_parser(t, list_end, s) ==
    IF ~StartsWith(s, "[") THEN Err("parse")
    ELSE list_end_of("]", separated_first(t, list_end, space0(Drop(s, 1)),
                                          parse_next(t, list_end, space0(Drop(s, 1)))))

\* ValueParser::array
array(t, list_end, s) == array_parser(t, list_end, s)

\* A fixed array that takes a list of any length.
fixed_array_any_len(t, len, list_end, s) == array_parser(t, list_end, s)

\* try_map of fixed_array: the list must have len elements.
exactly(len, r) ==
    IF ~r.ok THEN r
    ELSE IF Len(r.v) = len THEN r
    ELSE Err("FixedArrayLengthMismatch")

\* ValueParser::fixed_array
fixed_array(t, len, list_end, s) == exactly(len, array_parser(t, list_end, s))

\* The loop of tuple after item i - 1 and a ',' where one is due.
tuple_item(tys, i, acc, r) ==
    IF ~r.ok THEN r ELSE tuple_items(tys, i + 1, Append(acc, r.v), r.rest)

\* The loop of tuple from item i on, then spaces and ')'.
tuple_items(tys, i, acc, s) ==
    IF i > Len(tys) THEN list_close(")", acc, space0(s))
    ELSE IF i = 1 THEN tuple_item(tys, i, acc, parse_next(tys[i], ")", space0(s)))
    ELSE IF ~StartsWith(space0(s), ",") THEN Err("parse")
    ELSE tuple_item(tys, i, acc,
                    parse_next(tys[i], ")", space0(Drop(space0(s), 1))))

\* ValueParser::tuple
tuple(tys, s) ==
    IF ~StartsWith(space0(s), "(") THEN Err("parse")
    ELSE tuple_items(tys, 1, <<>>, Drop(space0(s), 1))

\* The .map(..) of parse_next: the parsed item as a value of type t; the
\* text of a string is kept as text.
parse_map(t, r) ==
    IF ~r.ok THEN r
    ELSE CASE t.k = "Bool" -> [r EXCEPT !.v = VBool(@)]
           [] t.k = "Int" -> [r EXCEPT !.v = VInt(@, t.size)]
           [] t.k = "Uint" -> [r EXCEPT !.v = VUint(WordOfNat(@), t.size)]
           [] t.k = "FixedBytes" -> [r EXCEPT !.v = VFixedBytes(WordLeft(@), t.size)]
           [] t.k = "Bytes" -> [r EXCEPT !.v = VBytes(@)]
           [] t.k = "String" -> [r EXCEPT !.v = VString(@)]
           [] t.k = "Array" -> [r EXCEPT !.v = VArray(@)]
           [] t.k = "FixedArray" -> [r EXCEPT !.v = VFixedArray(@)]
           [] t.k \in {"Tuple", "CustomStruct"} -> [r EXCEPT !.v = VTuple(@)]

\* ValueParser::parse_next; list_end is the closing character of the
\* enclosing list, which in_list sets for the items of a list.
parse_next(t, list_end, s) ==
    CASE t.k = "Bool" -> parse_map(t, bool(s))
      [] t.k = "Int" -> parse_map(t, int(t.size, s))
      [] t.k = "Uint" -> parse_map(t, uint(t.size, s))
      [] t.k = "FixedBytes" -> parse_map(t, fixed_bytes(t.size, s))
      [] t.k = "Bytes" -> parse_map(t, bytes(s))
      [] t.k = "String" -> parse_map(t, string(list_end, s))
      [] t.k = "Array" -> parse_map(t, array(t.inner, "]", s))
      [] t.k = "FixedArray" -> parse_map(t, fixed_array(t.inner, t.size, "]", s))
      [] t.k \in {"Tuple", "CustomStruct"} -> parse_map(t, tuple(t.elems, s))

\* Parser::parse: the parser must consume the whole input.
parse_all(r) ==
    IF ~r.ok THEN Err(r.err)
    ELSE IF r.rest # "" THEN Err("parse")
    ELSE Ok(r.v)

\* DynYlmType::coerce_str
coerce_str(t, s) == parse_all(parse_next(t, NoList, s))

(***************************************************************************)
(* Inputs of the codec specifications                                      *)
(***************************************************************************)
\* Longest array, fixed array and tuple drawn as an input.
MaxLen == 2

\* Longest input buffer, in words, drawn for decoding.
MaxWords == 3

LeafTypes == {TBool, TUint(8), TBytes}

EmptyTuple == TTuple(<<>>)

StructS == TCustomStruct("S", <<"a", "b">>, <<TBool, TBytes>>)

FlatTypes ==
    LeafTypes \cup {EmptyTuple, TInt(16), TString, TAddress}
        \cup {TArray(t) : t \in LeafTypes \cup {EmptyTuple}}
        \cup {TFixedArray(t, n) : t \in LeafTypes \cup {EmptyTuple}, n \in 0..MaxLen}
        \cup {TTuple(ts) : ts \in SeqsUpTo(LeafTypes, MaxLen)}

NestedTypes ==
    { TArray(TArray(TBool)),
      TArray(TFixedArray(TUint(8), 2)),
      TFixedArray(TArray(TBytes), 2),
      TTuple(<<TArray(TUint(8)), TBool>>),
      TTuple(<<TTuple(<<TBool, TBytes>>)>>),
      TTuple(<<EmptyTuple, EmptyTuple>>),
      TFixedArray(TArray(EmptyTuple), 1),
      StructS,
      TArray(StructS) }

Types == FlatTypes \cup NestedTypes

RECURSIVE ValuesOf(_, _)
RECURSIVE ProductOf(_, _)

\* All value sequences whose i-th element is a ValuesOf(ts[i], n).
ProductOf(ts, n) ==
    IF ts = <<>> THEN {<<>>}
    ELSE {<<v>> \o rest : v \in ValuesOf(Head(ts), n), rest \in ProductOf(Tail(ts), n)}

\* The well-formed values of type t with sequences no longer than n.
ValuesOf(t, n) ==
    CASE t.k = "Bool" -> {VBool(TRUE), VBool(FALSE)}
      [] t.k = "Uint" -> {VUint(WordOfNat(0), t.size), VUint(WordOfNat(255), t.size)}
      [] t.k = "Int" -> {VInt(WordOfNat(1), t.size), VInt(WordOfNeg(2), t.size)}
      [] t.k = "Bytes" -> {VBytes(<<>>), VBytes(<<1, 2>>)}
      [] t.k = "String" -> {VString(<<97, 98>>)}
      [] t.k = "Address" -> {VAddress([i \in 1..AddressBytes |-> 17])}
      [] t.k = "Array" ->
            {VArray(vs) : vs \in SeqsUpTo(ValuesOf(t.inner, Max(n - 1, 0)), n)}
      [] t.k = "FixedArray" ->
            {VFixedArray(vs) : vs \in [1..t.size -> ValuesOf(t.inner, Max(n - 1, 0))]}
      [] t.k = "Tuple" -> {VTuple(vs) : vs \in ProductOf(t.elems, n)}
      [] t.k = "CustomStruct" ->
            {VCustomStruct(t.name, t.prop_names, vs) : vs \in ProductOf(t.elems, n)}

Values == UNION {ValuesOf(t, MaxLen) : t \in Types}

\* Words an input buffer is made of: small offsets and lengths, an unaligned
\* offset, a huge declared length, and a payload word.
BigLen == 16777215

BufferWords ==
    { WordOfNat(0), WordOfNat(1), WordOfNat(2), WordOfNat(32), WordOfNat(33),
      WordOfNat(64), WordOfNat(BigLen) }

\* A chain of offset/length words: every array it describes holds one array.
ChainWords == 40

Chain == Flatten([i \in 1..ChainWords |-> IF i % 2 = 0 THEN WordOfNat(1) ELSE WordOfNat(32)])

Buffers == {Flatten(ws) : ws \in SeqsUpTo(BufferWords, MaxWords)} \cup {Chain}

RECURSIVE NestArray(_, _)
NestArray(t, n) == IF n = 0 THEN t ELSE TArray(NestArray(t, n - 1))

\* Array nesting of the deepest type drawn for decoding.
MaxNest == 10

DeepTypes == {NestArray(t, n) : t \in {TUint(256), TBytes}, n \in 7..MaxNest}

\* Non-zero-sized types holding an array whose elements encode to no words,
\* and the inputs drawn for them (declared lengths small enough to build).
HollowTypes == { TTuple(<<TArray(EmptyTuple), TBool>>),
                 TArray(TTuple(<<TArray(TFixedArray(TBool, 0)), TBool>>)) }

HollowWords == { WordOfNat(0), WordOfNat(9), WordOfNat(32), WordOfNat(64) }

HollowBuffers == {Flatten(ws) : ws \in SeqsUpTo(HollowWords, MaxWords + 1)}

\* A fixed array far longer than any input drawn (fixed_array_dos).
DosTypes == {TFixedArray(TUint(32), BigLen)}

DecodeTypes == Types \cup DeepTypes \cup DosTypes

(***************************************************************************)
(* Specifications of the codec                                             *)
(***************************************************************************)
\* matches(ty, val) on every pair of a drawn type and a drawn value.
InitMatch ==
    /\ pc = "match"
    /\ ty \in Types
    /\ val \in Values
    /\ data = None /\ text = None /\ tmap = None /\ res = None /\ aux = None

Match ==
    /\ pc = "match"
    /\ res' = matches(ty, val)
    /\ pc' = "matched"
    /\ UNCHANGED <<ty, val, data, text, tmap, aux>>

NextMatch == Match

SpecMatch == InitMatch /\ [][NextMatch]_vars

\* Encode a value that matches the type, decode the bytes, encode again.
InitRoundTrip ==
    /\ pc = "value"
    /\ ty \in Types
    /\ val \in Values
    /\ matches(ty, val)
    /\ data = None /\ text = None /\ tmap = None /\ res = None /\ aux = None

Encode ==
    /\ pc = "value"
    /\ data' = abi_encode(val)
    /\ pc' = "encoded"
    /\ UNCHANGED <<ty, val, text, tmap, res, aux>>

EncodeParams ==
    /\ pc = "value"
    /\ data' = abi_encode_params(val)
    /\ pc' = "encoded_params"
    /\ UNCHANGED <<ty, val, text, tmap, res, aux>>

Decode ==
    /\ pc = "encoded"
    /\ res' = abi_decode(ty, data)
    /\ pc' = "decoded"
    /\ UNCHANGED <<ty, val, data, text, tmap, aux>>

DecodeParams ==
    /\ pc = "encoded_params"
    /\ res' = abi_decode_params(ty, data)
    /\ pc' = "decoded_params"
    /\ UNCHANGED <<ty, val, data, text, tmap, aux>>

DecodeSequence ==
    /\ pc = "encoded"
    /\ res' = abi_decode_sequence(ty, data)
    /\ pc' = "decoded_sequence"
    /\ UNCHANGED <<ty, val, data, text, tmap, aux>>

ReEncode ==
    /\ pc = "decoded"
    /\ res.res.ok
    /\ aux' = abi_encode(res.res.v)
    /\ pc' = "reencoded"
    /\ UNCHANGED <<ty, val, data, text, tmap, res>>

ReEncodeParams ==
    /\ pc = "decoded_params"
    /\ res.res.ok
    /\ aux' = abi_encode_params(res.res.v)
    /\ pc' = "reencoded_params"
    /\ UNCHANGED <<ty, val, data, text, tmap, res>>

NextRoundTrip == Encode \/ EncodeParams \/ Decode \/ DecodeParams \/ ReEncode \/ ReEncodeParams

SpecRoundTrip == InitRoundTrip /\ [][NextRoundTrip]_vars

\* Decode arbitrary input bytes.
InitDecode ==
    /\ pc = "encoded"
    /\ \/ ty \in DecodeTypes /\ data \in Buffers
       \/ ty \in HollowTypes /\ data \in HollowBuffers
    /\ val = None /\ text = None /\ tmap = None /\ res = None /\ aux = None

NextDecode == Decode \/ DecodeSequence

SpecDecode == InitDecode /\ [][NextDecode]_vars

Decoded == pc \in {"decoded", "decoded_sequence", "decoded_params"}

(***************************************************************************)
(* Properties of the codec                                                 *)
(***************************************************************************)
\* The shape relation of the specification: same variant, equal sizes, equal
\* fixed-array and tuple lengths, every element of the same shape.  A struct
\* value stands for the tuple of its fields.
RECURSIVE SameShape(_, _)
SameShape(t, value) ==
    CASE t.k \in {"Bool", "Address", "Function", "Bytes", "String"} -> value.k = t.k
      [] t.k \in SizedKinds -> value.k = t.k /\ value.size = t.size
      [] t.k = "Array" ->
            value.k = "Array" /\ \A i \in 1..Len(value.v) : SameShape(t.inner, value.v[i])
      [] t.k = "FixedArray" ->
            /\ value.k = "FixedArray"
            /\ Len(value.v) = t.size
            /\ \A i \in 1..Len(value.v) : SameShape(t.inner, value.v[i])
      [] t.k \in {"Tuple", "CustomStruct"} ->
            /\ value.k \in {"Tuple", "CustomStruct"}
            /\ Len(value.v) = Len(t.elems)
            /\ \A i \in 1..Len(value.v) : SameShape(t.elems[i], value.v[i])

\* C3: matches(T, v) is true exactly when v has the shape of T, recursively;
\* a tuple value with fewer or more elements than the tuple type does not
\* match.
C3_MatchesIffSameShape == pc = "matched" => (res <=> SameShape(ty, val))

\* C1: a value that matches its type decodes from its encoding to itself,
\* by abi_decode and by abi_decode_params, and encoding the decoded value
\* again gives the same bytes.
C1_RoundTrip ==
    /\ pc \in {"decoded", "decoded_params"} => res.res = Ok(val)
    /\ pc \in {"reencoded", "reencoded_params"} => aux = data

\* C2: every value that abi_decode or abi_decode_sequence returns matches
\* the type it was decoded as, zero-sized types included.
C2_DecodedMatches == (Decoded /\ res.res.ok) => matches(ty, res.res.v)

\* The element count that the array at the top of the input declares, and the
\* words that follow it; None when the input ends before the count.
DeclaredAt(input) ==
    IF Len(input) < WordBytes THEN None
    ELSE LET off == as_offset(SubSeq(input, 1, WordBytes))
         IN IF off > Len(input) - WordBytes THEN None
            ELSE [n |-> as_offset(SubSeq(input, off + 1, off + WordBytes)),
                  remaining |-> (Len(input) - off - WordBytes) \div WordBytes]

\* C4: when a dynamic array's declared count N needs more words than remain
\* (remaining < N * minimum_words(element)), decode returns Overrun and has
\* allocated nothing for the N elements; and the elements that decode
\* allocates for never outnumber the words of the input.
C4_OverrunProtection ==
    Decoded =>
        /\ (ty.k = "Array" /\ ~is_zst(ty) /\ DeclaredAt(data) # None) =>
              LET d == DeclaredAt(data)
              IN (d.n > 0 /\ Exceeds(d.n, minimum_words(ty.inner), d.remaining)) =>
                    res.res = Err("Overrun") /\ res.g.alloc = 0
        /\ res.g.alloc <= Len(data) \div WordBytes

\* C5: decoding never goes deeper than 16 decoder levels; the attempt to go
\* deeper ends the decode with RecursionLimitExceeded, and nothing else does.
C5_RecursionLimit ==
    Decoded =>
        /\ res.g.maxd <= 16
        /\ res.g.limit <=> res.res = Err("RecursionLimitExceeded")

C5_Witness ==
    /\ Decoded
    /\ ty \in DeepTypes
    /\ res.g.maxd = 16
    /\ res.res = Err("RecursionLimitExceeded")

\* The empty value of the outermost container kind of t.
EmptyOf(t) == [k |-> t.k, v |-> <<>>]

MaxAbs == 300

\* The magnitudes around the bounds of int16 and uint16.
EdgeMagnitudes == {32767, 32768, 32769, 65535, 65536}

Magnitudes == 0..MaxAbs \cup EdgeMagnitudes

SignTexts == {"", "+", "-"}

\* The decimal literal of n.
RECURSIVE ToDec(_)
ToDec(n) ==
    IF n < 10 THEN Char(DecChars, n + 1)
    ELSE ToDec(n \div 10) \o Char(DecChars, (n % 10) + 1)

OtherTexts ==
    { "", "true", "false", "tru", "0x7f", "0x80", "0XfF", "0b101", "0o17", "-0x80",
      "1 wei", "1wei", "2 gwei", "0 ether", "1.5", "1.0", "0.00001 gwei", "12 x", "1_0",
      "- 1", "1 ", "--1", "+-1", "0x", "1.", "7\twei" }

CoerceTypes == {TInt(8), TInt(16), TUint(8), TUint(16), TBool}

InitCoerce ==
    /\ pc = "text"
    /\ ty \in CoerceTypes
    /\ \/ /\ aux \in [sign : SignTexts, abs : Magnitudes]
          /\ text = aux.sign \o ToDec(aux.abs)
       \/ /\ aux = None
          /\ text \in OtherTexts
    /\ val = None /\ data = None /\ tmap = None /\ res = None

CoerceStr ==
    /\ pc = "text"
    /\ res' = coerce_str(ty, text)
    /\ pc' = "coerced"
    /\ UNCHANGED <<ty, val, data, text, tmap, aux>>

NextCoerce == CoerceStr

SpecCoerce == InitCoerce /\ [][NextCoerce]_vars

\* The signed value that the drawn literal denotes.
Denoted == IF aux.sign = "-" THEN 0 - aux.abs ELSE aux.abs

WordOfInt(v) == IF v < 0 THEN WordOfNeg(0 - v) ELSE WordOfNat(v)

\* C7: coerce_str on Int(n) succeeds exactly for the literals whose value
\* lies in [-2^(n-1), 2^(n-1) - 1], and fails with the overflow error for
\* every value outside it, above and below.
C7_IntRange ==
    (pc = "coerced" /\ ty.k = "Int" /\ aux # None) =>
        IF 0 - 2^(ty.size - 1) <= Denoted /\ Denoted <= 2^(ty.size - 1) - 1
        THEN res = Ok(VInt(WordOfInt(Denoted), ty.size))
        ELSE res = Err("IntOverflow")

\* The input has fewer words than the type needs at least.
TooShort == remaining_words(DecoderNew(data)) < minimum_words(ty)

\* C15 as stated: abi_decode on any type whose minimum_words() exceeds the
\* words of the input returns Overrun, before empty_dyn_token builds a token.
C15_FailFastAll ==
    (Decoded /\ TooShort) => (res.res = Err("Overrun") /\ ~res.built)

\* C15: abi_decode on a type that is not zero-sized and whose minimum_words()
\* exceeds the words of the input returns Overrun, before empty_dyn_token
\* builds a token; a zero-sized type decodes to its empty value instead.
C15_FailFast ==
    (Decoded /\ TooShort) =>
        IF is_zst(ty) THEN res.res.ok /\ ~res.built
        ELSE res.res = Err("Overrun") /\ ~res.built

C15_Witness ==
    /\ Decoded
    /\ ty \in DosTypes
    /\ data = <<>>
    /\ res.res = Err("Overrun")
    /\ ~res.built

\* The value is, or holds at some depth, a dynamic array.
RECURSIVE ContainsArray(_)
ContainsArray(value) ==
    CASE value.k = "Array" -> TRUE
      [] value.k \in {"FixedArray", "Tuple", "CustomStruct"} ->
            \E i \in 1..Len(value.v) : ContainsArray(value.v[i])
      [] OTHER -> FALSE

\* C14 as stated: every value of a zero-sized type, a dynamic array of empty
\* tuples included, encodes to zero bytes.
C14_ZstEncodesEmpty ==
    (pc = "encoded" /\ is_zst(ty) /\ SameShape(ty, val)) => data = <<>>

\* C14: a value of a zero-sized type encodes to zero bytes unless it is or
\* holds a dynamic array, which encodes to at least its offset word and its
\* element-count word.
C14_StaticZstEncodesEmpty ==
    (pc = "encoded" /\ is_zst(ty) /\ SameShape(ty, val)) =>
        IF ContainsArray(val) THEN Len(data) >= 2 * WordBytes ELSE data = <<>>

C14_Witness ==
    /\ pc = "encoded"
    /\ ty = TFixedArray(EmptyTuple, 2)
    /\ SameShape(ty, val)
    /\ data = <<>>

(***************************************************************************)
(* Specification of coerce_str on unsigned literals with fraction and unit *)
(***************************************************************************)
\* Integer parts: small ones and the edges of uint8 and uint16.
IntParts == {0, 1, 2, 25, 255, 256, 65535, 65536}

\* Fractions of 1, 2, 8, 9, 10, 18 and 19 digits; "" is no fraction at all.
Fracts ==
    { "", "0", "5", "00", "25", "00000025", "000000001", "0000000001",
      "000000000000000001", "0000000000000000001" }

UnitWords == {"", "wei", "gwei", "nano", "nanoether", "ether", "kwei", "Gwei", "eth"}

UnitTypes == {TUint(8), TUint(16), TUint(24)}

InitUnits ==
    /\ pc = "text"
    /\ ty \in UnitTypes
    /\ aux \in [int : IntParts, fract : Fracts, space : {"", " "}, unit : UnitWords]
    /\ text = ToDec(aux.int) \o (IF aux.fract = "" THEN "" ELSE "." \o aux.fract)
                \o aux.space \o aux.unit
    /\ val = None /\ data = None /\ tmap = None /\ res = None

NextUnits == CoerceStr

SpecUnits == InitUnits /\ [][NextUnits]_vars

\* The exponent that the claim gives to a unit keyword, -1 for any other.
UnitExponent(word) ==
    CASE word \in {"", "wei"} -> 0
      [] word \in {"gwei", "nano", "nanoether"} -> 9
      [] word = "ether" -> 18
      [] OTHER -> 0 - 1

\* Values from Beyond on are too large for every type of UnitTypes.
Beyond == 2^24

\* x * 10^k, or Beyond when that is larger.
Scale(x, k) ==
    IF x = 0 THEN 0
    ELSE IF k >= 8 THEN Beyond
    ELSE IF x > Beyond \div (10^k) THEN Beyond
    ELSE x * 10^k

\* The number that the first n of a string of decimal digits denote, or Beyond.
RECURSIVE DecValueTo(_, _)
DecValueTo(digits, n) ==
    IF n = 0 THEN 0
    ELSE Min(Beyond, DecValueTo(digits, n - 1) * 10 + HexValue[Char(digits, n)])

\* The number that a string of decimal digits denotes, or Beyond: more than
\* eight digits after the leading zeros denote at least 10^8 > Beyond.
DecValue(digits) ==
    IF Len(digits) - PrefixLen(digits, 1, {"0"}) > 8 THEN Beyond
    ELSE DecValueTo(Drop(digits, PrefixLen(digits, 1, {"0"})),
                    Len(digits) - PrefixLen(digits, 1, {"0"}))

\* (I * 10^d + F) * 10^(e - d) for the drawn literal, as I * 10^e + F * 10^(e - d).
Scaled ==
    Min(Beyond, Scale(aux.int, UnitExponent(aux.unit))
                  + Scale(DecValue(aux.fract), UnitExponent(aux.unit) - Len(aux.fract)))

\* The literal has a unit keyword and no more fraction digits than its exponent.
WellScaled == UnitExponent(aux.unit) >= Len(aux.fract)

\* C12: a decimal literal with d fraction digits and a unit of exponent e
\* coerces to (I * 10^d + F) * 10^(e - d) when d <= e and that fits the width;
\* it fails when d > e, which every fraction without a unit is, and when the
\* unit keyword is not one of wei, gwei, nano, nanoether and ether.
C12_UnitScaling ==
    (pc = "coerced" /\ ty \in UnitTypes) =>
        IF WellScaled
        THEN Scaled < 2^ty.size => res = Ok(VUint(WordOfNat(Scaled), ty.size))
        ELSE ~res.ok

C12_Witness ==
    /\ pc = "coerced"
    /\ ty = TUint(8)
    /\ text = "0.00000025 gwei"
    /\ res = Ok(VUint(WordOfNat(250), 8))

MaxArity == 3

ArityTypes == {TFixedArray(TBool, n) : n \in 0..MaxArity}

\* The texts of a sequence, with sep between them.
RECURSIVE JoinTexts(_, _)
JoinTexts(texts, sep) ==
    IF texts = <<>> THEN ""
    ELSE IF Len(texts) = 1 THEN texts[1]
    ELSE texts[1] \o sep \o JoinTexts(Tail(texts), sep)

BoolText(b) == IF b THEN "true" ELSE "false"

\* A bracketed list of booleans, with or without spaces and a trailing ','.
InitFixedArray ==
    /\ pc = "text"
    /\ ty \in ArityTypes
    /\ aux \in [elems : SeqsUpTo(BOOLEAN, MaxArity + 1), sep : {",", ", "},
                 open : {"[", "[ "}, close : {"]", " ]", ",]"}]
    /\ text = aux.open
                \o JoinTexts([i \in 1..Len(aux.elems) |-> BoolText(aux.elems[i])], aux.sep)
                \o aux.close
    /\ val = None /\ data = None /\ tmap = None /\ res = None

NextFixedArray == CoerceStr

SpecFixedArray == InitFixedArray /\ [][NextFixedArray]_vars

\* C16: coerce_str on FixedArray(T, n) returns the n values of a bracketed
\* list of exactly n elements, in order, and the length-mismatch error for a
\* list of fewer or of more elements.
C16_FixedArrayArity ==
    (pc = "coerced" /\ ty \in ArityTypes) =>
        IF Len(aux.elems) = ty.size
        THEN res = Ok(VFixedArray([i \in 1..Len(aux.elems) |-> VBool(aux.elems[i])]))
        ELSE res = Err("FixedArrayLengthMismatch")

C16_Witness ==
    /\ pc = "coerced"
    /\ ty = TFixedArray(TBool, 3)
    /\ text = "[true, false, true]"
    /\ res = Ok(VFixedArray(<<VBool(TRUE), VBool(FALSE), VBool(TRUE)>>))

(***************************************************************************)
(* Specification of coerce_str on strings: at top level, as the element of *)
(* an array and as the first field of a tuple                              *)
(***************************************************************************)
StringBodies ==
    {"", "a", "a b", " a", "a  b c", "a'b", "a\"b", "a,b", "a]b", "a)b", "a\\b", "a\\\"b",
     "[a", "(a", "true", " a b ", "a\t", "a\",\"b"}

StringPads == {"", " ", " \t"}

StringContexts == {"top", "array", "tuple"}

\* The text of the string as written: an opening quote or none, the body, the
\* closing quote or none, and trailing blanks.
Written ==
    aux.quote \o aux.body \o (IF aux.closed THEN aux.quote ELSE "") \o aux.pad

\* What follows the string in its list.
Following ==
    CASE aux.ctx = "top" -> ""
      [] aux.ctx = "array" -> "]"
      [] aux.ctx = "tuple" -> ",true)"

InitString ==
    /\ pc = "text"
    /\ aux \in [ctx : StringContexts, quote : {"", "\"", "'"}, body : StringBodies,
                 closed : BOOLEAN, pad : StringPads]
    /\ aux.quote = "" => aux.closed
    /\ ty = CASE aux.ctx = "top" -> TString
              [] aux.ctx = "array" -> TArray(TString)
              [] aux.ctx = "tuple" -> TTuple(<<TString, TBool>>)
    /\ text = (CASE aux.ctx = "top" -> ""
                 [] aux.ctx = "array" -> "["
                 [] aux.ctx = "tuple" -> "(") \o Written \o Following
    /\ val = None /\ data = None /\ tmap = None /\ res = None

NextString == CoerceStr

SpecString == InitString /\ [][NextString]_vars

\* The first position of s that holds a character of stops, or 0.
FirstOf(s, stops) ==
    IF \E i \in 1..Len(s) : Char(s, i) \in stops
    THEN CHOOSE i \in 1..Len(s) :
            Char(s, i) \in stops /\ \A j \in 1..(i - 1) : Char(s, j) \notin stops
    ELSE 0

\* s without its trailing whitespace.
Trimmed(s) ==
    IF \E i \in 1..Len(s) : Char(s, i) \notin WhiteSet
    THEN Take(s, CHOOSE i \in 1..Len(s) :
                    Char(s, i) \notin WhiteSet
                    /\ \A j \in (i + 1)..Len(s) : Char(s, j) \in WhiteSet)
    ELSE ""

\* s without its leading blanks, which the list syntax takes.
Unblank(s) ==
    IF \E i \in 1..Len(s) : Char(s, i) \notin SpaceSet
    THEN Drop(s, (CHOOSE i \in 1..Len(s) :
                     Char(s, i) \notin SpaceSet
                     /\ \A j \in 1..(i - 1) : Char(s, j) \in SpaceSet) - 1)
    ELSE ""

ListEnd == IF aux.ctx = "array" THEN "]" ELSE ")"

\* The result for the string value str in the drawn context.
InContext(str) ==
    CASE aux.ctx = "top" -> Ok(VString(str))
      [] aux.ctx = "array" -> Ok(VArray(<<VString(str)>>))
      [] aux.ctx = "tuple" -> Ok(VTuple(<<VString(str), VBool(TRUE)>>))

\* The string value of the result: the value, or the first one of the list.
StringOf(r) == IF aux.ctx = "top" THEN r.v ELSE r.v.v[1]

\* The text after the opening quote, and the place of the next same quote.
AfterQuote == Drop(Written \o Following, 1)

QuoteAt == FirstOf(AfterQuote, {aux.quote})

\* The unquoted text from its first character on, and the place of the next
\* ',' or closing delimiter of the list.
Bare == Unblank(Written \o Following)

StopAt == FirstOf(Bare, {",", ListEnd})

\* C20: a string that begins with a quote is exactly the characters up to
\* the next same quote, kept as they are, and a missing closing quote is an
\* error; unquoted text in an array or tuple ends at the next ',' or at the
\* closing delimiter of the list and loses its trailing whitespace; unquoted
\* text at top level is the whole input without its trailing whitespace.
C20_StringText ==
    pc = "coerced" =>
        IF aux.quote # ""
        THEN /\ QuoteAt = 0 => ~res.ok
             /\ res.ok => StringOf(res) = VString(Take(AfterQuote, QuoteAt - 1))
             /\ (QuoteAt = Len(aux.body) + 1 /\ ~(aux.ctx = "top" /\ aux.pad # ""))
                    => res = InContext(aux.body)
        ELSE IF aux.ctx = "top"
        THEN res = Ok(VString(Trimmed(Written)))
        ELSE /\ (res.ok /\ StopAt > 1) =>
                    StringOf(res) = VString(Trimmed(Take(Bare, StopAt - 1)))
             /\ (FirstOf(aux.body, {",", ListEnd}) = 0 /\ Unblank(Written) # "")
                    => res = InContext(Trimmed(Unblank(Written)))

C20_Witness ==
    /\ pc = "coerced"
    /\ text = "(\"a,b\" ,true)"
    /\ res = Ok(VTuple(<<VString("a,b"), VBool(TRUE)>>))

(***************************************************************************)
(* coerce_json (eip712/coerce.rs) on serde_json::Value.  An object keeps   *)
(* its members as <<key, value>> pairs in document order; a later member   *)
(* replaces an earlier one with the same key.                              *)
(***************************************************************************)
JNull == [j |-> "Null"]

JBool(b) == [j |-> "Bool", b |-> b]

\* An integer number, within i64.
JNum(n) == [j |-> "Number", n |-> n]

\* A number with a fraction, such as 4.2.
JFloat == [j |-> "Float"]

JStr(s) == [j |-> "String", s |-> s]

JArr(items) == [j |-> "Array", items |-> items]

JObj(pairs) == [j |-> "Object", pairs |-> pairs]

\* Error::eip712_coerce(ty, value)
eip712_coerce(t, value) == Err([Eip712Coerce |-> t, value |-> value])

\* Option::None
Absent == Err("None")

\* serde_json::Map::get on the members 1..i.
RECURSIVE map_get(_, _, _)
map_get(pairs, i, name) ==
    IF i = 0 THEN Absent
    ELSE IF pairs[i][1] = name THEN Ok(pairs[i][2])
    ELSE map_get(pairs, i - 1, name)

\* <bool as FromStr>::from_str
bool_from_str(s) ==
    IF s = "true" THEN Ok(TRUE) ELSE IF s = "false" THEN Ok(FALSE) ELSE Absent

json_bool(value) ==
    CASE value.j = "Bool" -> Ok(value.b)
      [] value.j = "String" -> bool_from_str(value.s)
      [] OTHER -> Absent

\* I256::bits: the least number of bits that hold x in two's complement.
signed_bits(x) ==
    IF x = 0 THEN 0
    ELSE IF x < 0 /\ bit_len(0 - x) # bit_len((0 - x) - 1) THEN bit_len(0 - x)
    ELSE bit_len(IF x < 0 THEN 0 - x ELSE x) + 1

signed_of(sg, abs) ==
    IF ~abs.ok THEN Absent
    ELSE IF sg = "Negative" THEN Ok(0 - abs.v) ELSE Ok(abs.v)

\* <I256 as FromStr>::from_str: a sign, then the magnitude as U256.
signed_from_str(s) == signed_of(int_sign(s).v, uint_from_str(int_sign(s).rest))

int_fits(n, x) == IF x.ok /\ signed_bits(x.v) <= n THEN x ELSE Absent

json_int(n, value) ==
    CASE value.j = "Number" -> int_fits(n, Ok(value.n))
      [] value.j = "String" -> int_fits(n, signed_from_str(value.s))
      [] OTHER -> Absent

uint_fits(n, x) == IF x.ok /\ bit_len(x.v) <= n THEN Ok(x.v) ELSE Absent

json_uint(n, value) ==
    CASE value.j = "Number" /\ value.n >= 0 -> uint_fits(n, Ok(value.n))
      [] value.j = "String" -> uint_fits(n, uint_from_str(value.s))
      [] OTHER -> Absent

json_string(value) == IF value.j = "String" THEN Ok(value.s) ELSE Absent

\* hex::decode on a JSON string: an optional 0x, then hex digits only.
json_hex_decode(s) ==
    IF hex_digit0(IF opt_0x(s) THEN Drop(s, 2) ELSE s).rest # "" THEN Err("InvalidHexCharacter")
    ELSE hex_decode(IF opt_0x(s) THEN Drop(s, 2) ELSE s)

\* The word of fixed_bytes: the first min bytes of buf, if min <= 32.
json_fixed_word(min, buf) ==
    IF min <= WordBytes THEN Ok(WordLeft(Take(buf, min))) ELSE Absent

json_fixed_bytes(n, value) ==
    IF value.j = "String" /\ json_hex_decode(value.s).ok
    THEN json_fixed_word(Min(n, Len(json_hex_decode(value.s).v)), json_hex_decode(value.s).v)
    ELSE Absent

\* DynYlmType::coerce_json_simple, for the scalar types the specifications draw.
coerce_json_simple(t, value) ==
    CASE t.k = "Bool" ->
           IF json_bool(value).ok THEN Ok(VBool(json_bool(value).v)) ELSE Absent
      [] t.k = "Int" ->
           IF json_int(t.size, value).ok
           THEN Ok(VInt(WordOfInt(json_int(t.size, value).v), t.size)) ELSE Absent
      [] t.k = "Uint" ->
           IF json_uint(t.size, value).ok
           THEN Ok(VUint(WordOfNat(json_uint(t.size, value).v), t.size)) ELSE Absent
      [] t.k = "String" ->
           IF json_string(value).ok THEN Ok(VString(json_string(value).v)) ELSE Absent
      [] t.k = "FixedBytes" ->
           IF json_fixed_bytes(t.size, value).ok
           THEN Ok(VFixedBytes(json_fixed_bytes(t.size, value).v, t.size)) ELSE Absent

ok_or_else(r, t, value) == IF r.ok THEN r ELSE eip712_coerce(t, value)

json_wrap(r, kind) == IF r.ok THEN Ok([k |-> kind, v |-> r.v]) ELSE r

RECURSIVE coerce_json(_, _), json_items(_, _, _, _), struct_fields(_, _, _, _, _, _)

json_item_push(types, items, i, acc, r) ==
    IF r.ok THEN json_items(types, items, i + 1, Append(acc, r.v)) ELSE r

\* zip(arr, types).map(|(v, t)| t.coerce_json(v)).collect(): the values, or
\* the first error.
json_items(types, items, i, acc) ==
    IF i > Len(items) THEN Ok(acc)
    ELSE json_item_push(types, items, i, acc, coerce_json(types[i], items[i]))

json_tuple(t, value) ==
    IF value.j = "Array" /\ Len(t.elems) = Len(value.items)
    THEN json_wrap(json_items(t.elems, value.items, 1, <<>>), "Tuple")
    ELSE eip712_coerce(t, value)

json_array(t, value) ==
    IF value.j = "Array"
    THEN json_wrap(json_items(Repeat(t.inner, Len(value.items)), value.items, 1, <<>>),
                   "Array")
    ELSE eip712_coerce(t, value)

json_fixed_array(t, value) ==
    IF value.j = "Array" /\ Len(value.items) = t.size
    THEN json_wrap(json_items(Repeat(t.inner, Len(value.items)), value.items, 1, <<>>),
                   "FixedArray")
    ELSE eip712_coerce(t, value)

struct_push(t, value, i, fields, r) ==
    IF r.ok THEN struct_fields(t, value, i + 1, Append(fields, r.v), t.prop_names, t.elems)
    ELSE r

struct_field_skipped(t, value, i, fields, got) ==
    IF got.ok THEN struct_push(t, value, i, fields, coerce_json(t.elems[i], got.v))
    ELSE struct_fields(t, value, i + 1, fields, t.prop_names, t.elems)

\* One turn of the loop of custom_struct: the declared name must be a key.
struct_field(t, value, i, fields, got) ==
    IF got.ok THEN struct_push(t, value, i, fields, coerce_json(t.elems[i], got.v))
    ELSE eip712_coerce(t, value)

\* for (name, ty) in zip(prop_names, inner)
struct_fields(t, value, i, fields, prop_names, inner) ==
    IF i > Min(Len(prop_names), Len(inner))
    THEN Ok(VCustomStruct(t.name, prop_names, fields))
    ELSE struct_field(t, value, i, fields,
                      map_get(value.pairs, Len(value.pairs), prop_names[i]))

custom_struct(t, value) ==
    IF value.j = "Object" THEN struct_fields(t, value, 1, <<>>, t.prop_names, t.elems)
    ELSE eip712_coerce(t, value)

\* DynYlmType::coerce_json
coerce_json(t, value) ==
    CASE t.k \in {"Bool", "Int", "Uint", "String", "FixedBytes"} ->
           ok_or_else(coerce_json_simple(t, value), t, value)
      [] t.k = "Array" -> json_array(t, value)
      [] t.k = "FixedArray" -> json_fixed_array(t, value)
      [] t.k = "Tuple" -> json_tuple(t, value)
      [] t.k = "CustomStruct" -> custom_struct(t, value)

\* coerce_json on the JSON value val; after coerce_str when the value is the
\* text as a JSON string.
CoerceJson ==
    /\ pc \in {"json", "coerced"}
    /\ data' = coerce_json(ty, val)
    /\ pc' = IF pc = "json" THEN "coerced_json" ELSE "compared"
    /\ UNCHANGED <<ty, val, text, tmap, res, aux>>

(***************************************************************************)
(* Specification of coerce_json on custom structs                          *)
(***************************************************************************)
\* Most members of a drawn JSON object.
MaxMembers == 3

PersonStruct == TCustomStruct("Person", <<"name", "age">>, <<TString, TUint(8)>>)

\* The same fields, declared in the other order.
AgedStruct == TCustomStruct("Aged", <<"age", "name">>, <<TUint(8), TString>>)

EmptyStruct == TCustomStruct("Empty", <<>>, <<>>)

OwnerStruct == TCustomStruct("Owner", <<"who", "age">>, <<PersonStruct, TUint(8)>>)

MemberKeys == {"name", "age", "x"}

MemberValues == {JStr("Bob"), JNum(7), JNum(300), JNull}

FlatObjects ==
    {JObj(m) : m \in SeqsUpTo({<<key, v>> : key \in MemberKeys, v \in MemberValues},
                              MaxMembers)}

SmallObjects == {o \in FlatObjects : Len(o.pairs) <= 2}

NonObjects == {JNull, JStr("Bob"), JNum(7), JFloat, JBool(TRUE),
               JArr(<<JStr("Bob"), JNum(7)>>)}

OwnerObjects ==
    {JObj(<<<<"age", JNum(7)>>, <<"who", o>>>>) : o \in SmallObjects \cup NonObjects}
        \cup {JObj(<<<<"who", o>>>>) : o \in SmallObjects}

InitJson ==
    /\ pc = "json"
    /\ \/ /\ ty \in {PersonStruct, AgedStruct, EmptyStruct}
          /\ val \in FlatObjects \cup NonObjects
       \/ /\ ty = OwnerStruct
          /\ val \in OwnerObjects \cup NonObjects
    /\ data = None /\ text = None /\ tmap = None /\ res = None /\ aux = None

NextJson == CoerceJson

SpecJson == InitJson /\ [][NextJson]_vars

\* The keys of an object, and the value of a key: that of its last member.
KeysOf(value) == {value.pairs[i][1] : i \in 1..Len(value.pairs)}

LastOf(value, key) ==
    value.pairs[CHOOSE i \in 1..Len(value.pairs) :
                    /\ value.pairs[i][1] = key
                    /\ \A j \in (i + 1)..Len(value.pairs) : value.pairs[j][1] # key][2]

\* The object is an object with every declared field name among its keys.
HasFields(t, value) == value.j = "Object" /\ Range(t.prop_names) \subseteq KeysOf(value)

FieldsCoerce(t, value) ==
    \A i \in 1..Len(t.prop_names) : coerce_json(t.elems[i], LastOf(value, t.prop_names[i])).ok

\* The struct value of the coerced fields, in the declared order.
StructOf(t, value) ==
    VCustomStruct(t.name, t.prop_names,
        [i \in 1..Len(t.prop_names) |->
            coerce_json(t.elems[i], LastOf(value, t.prop_names[i])).v])

\* The members whose keys are declared fields.
Declared(t, value) ==
    LET IsDeclared(m) == m[1] \in Range(t.prop_names)
    IN JObj(SelectSeq(value.pairs, IsDeclared))

\* The same members in every order, when no key occurs twice.
Reordered(value) ==
    IF Cardinality(KeysOf(value)) # Len(value.pairs) THEN {value}
    ELSE {JObj([i \in 1..Len(value.pairs) |-> value.pairs[p[i]]]) :
             p \in {q \in [1..Len(value.pairs) -> 1..Len(value.pairs)] :
                       \A i, j \in 1..Len(value.pairs) : q[i] = q[j] => i = j}}

SameOutcome(a, b) == a.ok = b.ok /\ (a.ok => a.v = b.v)

\* C18: coerce_json on a CustomStruct succeeds only for an object that has
\* every declared field name; the struct value then holds the coerced fields
\* in the declared order, whatever the order of the keys; undeclared keys
\* are ignored; a missing field or a non-object value is a coercion error.
C18_StructFields ==
    (pc = "coerced_json" /\ ty.k = "CustomStruct") =>
        /\ data.ok => HasFields(ty, val)
        /\ HasFields(ty, val) =>
              /\ data.ok <=> FieldsCoerce(ty, val)
              /\ data.ok => data.v = StructOf(ty, val)
              /\ SameOutcome(data, coerce_json(ty, Declared(ty, val)))
              /\ \A o \in Reordered(val) : SameOutcome(data, coerce_json(ty, o))
        /\ ~HasFields(ty, val) => ~data.ok
        /\ val.j # "Object" => data = eip712_coerce(ty, val)

C18_Witness ==
    /\ pc = "coerced_json"
    /\ ty = AgedStruct
    /\ val = JObj(<<<<"name", JStr("Bob")>>, <<"x", JNull>>, <<"age", JNum(7)>>>>)
    /\ data = Ok(VCustomStruct("Aged", <<"age", "name">>,
                               <<VUint(WordOfNat(7), 8), VString("Bob")>>))

(***************************************************************************)
(* Specification of the two coercions on the same decimal string           *)
(***************************************************************************)
WidthTypes == {TInt(8), TInt(16), TUint(8), TUint(16)}

\* A plain decimal integer, with '-' only for Int and with or without a
\* leading zero; the JSON value is the same text as a JSON string.
InitWidth ==
    /\ pc = "text"
    /\ ty \in WidthTypes
    /\ aux \in [sign : {"", "-"}, zeros : {"", "0"}, abs : Magnitudes]
    /\ aux.sign = "-" => ty.k = "Int"
    /\ text = aux.sign \o aux.zeros \o ToDec(aux.abs)
    /\ val = JStr(text)
    /\ data = None /\ tmap = None /\ res = None

NextWidth == CoerceStr \/ CoerceJson

SpecWidth == InitWidth /\ [][NextWidth]_vars

\* The value fits the n bits of the type: two's complement for Int.
Representable ==
    IF ty.k = "Int"
    THEN 0 - 2^(ty.size - 1) <= Denoted /\ Denoted <= 2^(ty.size - 1) - 1
    ELSE 0 <= Denoted /\ Denoted < 2^ty.size

\* C19: on a plain decimal integer string, coerce_json of the JSON string
\* succeeds exactly when coerce_str of the text does, with the same value,
\* and both succeed exactly for the values representable in n bits.
C19_SameWidthCheck ==
    pc = "compared" =>
        /\ data.ok <=> res.ok
        /\ (data.ok /\ res.ok) => data.v = res.v
        /\ res.ok <=> Representable
        /\ data.ok <=> Representable

\* The two coercions differ only below the range of Int(n): coerce_json
\* rejects what coerce_str lets through.
DifferOnlyBelowRange ==
    pc = "compared" =>
        /\ data.ok <=> Representable
        /\ (data.ok /\ res.ok) => data.v = res.v
        /\ IF ty.k = "Int" /\ Denoted < 0 - 2^(ty.size - 1) /\ aux.abs < 2^ty.size
           THEN res.ok /\ ~data.ok
           ELSE res.ok <=> data.ok

(***************************************************************************)
(* Type specifiers (specifier.rs): a parsed type string is a stem, a root  *)
(* identifier or a tuple of type specifiers, and a list of array sizes     *)
(* (0 stands for the unsized suffix "[]").                                 *)
(***************************************************************************)
RootStem(name) == [k |-> "Root", span |-> name]

TupleStem(types) == [k |-> "Tuple", types |-> types]

TypeSpecifier(stem, sizes) == [stem |-> stem, sizes |-> sizes]

\* <usize as FromStr>::from_str: an optional '+', then decimal digits only.
usize_parse(s) ==
    LET digits == IF StartsWith(s, "+") THEN Drop(s, 1) ELSE s
    IN IF digits = "" \/ PrefixLen(digits, 1, DecSet) # Len(digits) THEN Err("parse")
       ELSE from_str_radix(digits, 10)

\* str::strip_prefix
has_prefix(s, prefix) == Len(s) >= Len(prefix) /\ Take(s, Len(prefix)) = prefix

bytes_size(name, sz) ==
    IF sz.ok /\ sz.v # 0 /\ sz.v <= 32 THEN Ok(TFixedBytes(sz.v)) ELSE Err("InvalidSize")

int_size_unbounded(is_uint, sz) ==
    IF sz.ok /\ sz.v # 0 /\ sz.v % 8 = 0
    THEN IF is_uint THEN Ok(TUint(sz.v)) ELSE Ok(TInt(sz.v))
    ELSE Err("InvalidSize")

int_size(is_uint, sz) ==
    IF sz.ok /\ sz.v # 0 /\ sz.v <= 256 /\ sz.v % 8 = 0
    THEN IF is_uint THEN Ok(TUint(sz.v)) ELSE Ok(TInt(sz.v))
    ELSE Err("InvalidSize")

int_name(s, is_uint) ==
    IF has_prefix(s, "int") THEN int_size(is_uint, usize_parse(Drop(s, 3)))
    ELSE Err("InvalidTypeString")

\* <RootType as Specifier<DynYlmType>>::resolve
root_resolve(name) ==
    CASE name = "address" -> Ok(TAddress)
      [] name = "function" -> Ok(TFunction)
      [] name = "bool" -> Ok(TBool)
      [] name = "string" -> Ok(TString)
      [] name = "bytes" -> Ok(TBytes)
      [] name = "uint" -> Ok(TUint(256))
      [] name = "int" -> Ok(TInt(256))
      [] OTHER ->
           IF has_prefix(name, "bytes") THEN bytes_size(name, usize_parse(Drop(name, 5)))
           ELSE IF has_prefix(name, "u") THEN int_name(Drop(name, 1), TRUE)
           ELSE int_name(name, FALSE)

\* DynYlmType::array_wrap
array_wrap(t, size) == IF size # 0 THEN TFixedArray(t, size) ELSE TArray(t)

RECURSIVE array_wrap_from_iter_rev(_, _)
array_wrap_from_iter_rev(t, sizes) ==
    IF sizes = <<>> THEN t
    ELSE array_wrap(array_wrap_from_iter_rev(t, Tail(sizes)), Head(sizes))

\* DynYlmType::array_wrap_from_iter
RECURSIVE array_wrap_from_iter(_, _)
array_wrap_from_iter(t, sizes) ==
    IF sizes = <<>> THEN t
    ELSE array_wrap_from_iter(array_wrap(t, Head(sizes)), Tail(sizes))

RECURSIVE type_specifier_resolve(_), specifier_tuple(_, _, _)

specifier_wrap(r, sizes) == IF r.ok THEN Ok(array_wrap_from_iter(r.v, sizes)) ELSE r

tuple_specifier_resolve(types) == specifier_tuple(types, 1, <<>>)

\* <TypeStem as Specifier<DynYlmType>>::resolve
type_stem_resolve(stem) ==
    IF stem.k = "Root" THEN root_resolve(stem.span)
    ELSE tuple_specifier_resolve(stem.types)

\* <TypeSpecifier as Specifier<DynYlmType>>::resolve
type_specifier_resolve(spec) == specifier_wrap(type_stem_resolve(spec.stem), spec.sizes)

specifier_push(slice, i, types, r) ==
    IF r.ok THEN specifier_tuple(slice, i + 1, Append(types, r.v)) ELSE r

\* tuple(): the types of the slice, or the first error.
specifier_tuple(slice, i, types) ==
    IF i > Len(slice) THEN Ok(TTuple(types))
    ELSE specifier_push(slice, i, types, type_specifier_resolve(slice[i]))

(***************************************************************************)
(* Specification of type resolution                                        *)
(***************************************************************************)
\* Most types in a drawn tuple, and most array suffixes on a drawn type.
MaxFields == 2

MaxSuffixes == 1

SizeTexts ==
    {ToDec(n) : n \in {0, 1, 7, 8, 9, 12, 16, 24, 31, 32, 33, 64, 128, 248, 255, 256, 257,
                        264, 512, 1000}}
        \cup {"08", "032", "0256", "00"}

\* Identifiers: the basic names, sized names, and names that are neither.
RootNames ==
    {"address", "function", "bool", "string", "bytes", "uint", "int"}
        \cup {p \o d : p \in {"uint", "int", "bytes"}, d \in SizeTexts}
        \cup {"integer", "uintx", "bytesfoo", "bytes32x", "int_8", "byte", "bytes_", "u",
              "uuint8", "Uint8", "unit8", "in", "tuple", "Person", "foo", "address1"}

SizeLists == SeqsUpTo({0, 2}, MaxSuffixes)

RootSpecifiers == {TypeSpecifier(RootStem(n), z) : n \in RootNames, z \in SizeLists}

\* The roots drawn inside tuples.
FieldNames == {"bool", "int8", "uint264", "bytes32", "integer", "foo"}

FieldSpecifiers == {TypeSpecifier(RootStem(n), z) : n \in FieldNames, z \in {<<>>, <<2>>}}

FlatTuples == {TupleStem(f) : f \in SeqsUpTo(FieldSpecifiers, MaxFields)}

NestedTuples ==
    {TupleStem(<<TypeSpecifier(t, z)>>) : t \in FlatTuples, z \in SizeLists}

TupleSpecifiers ==
    {TypeSpecifier(t, z) : t \in FlatTuples \cup NestedTuples, z \in SizeLists}

InitResolve ==
    /\ pc = "specifier"
    /\ aux \in RootSpecifiers \cup TupleSpecifiers
    /\ ty = None /\ val = None /\ data = None /\ text = None /\ tmap = None /\ res = None

\* DynYlmType::parse after TypeSpecifier::parse: resolve the specifier.
ResolveType ==
    /\ pc = "specifier"
    /\ res' = type_specifier_resolve(aux)
    /\ pc' = "resolved"
    /\ UNCHANGED <<ty, val, data, text, tmap, aux>>

NextResolve == ResolveType

SpecResolve == InitResolve /\ [][NextResolve]_vars

\* The size of a sized name is what follows its prefix; it is a number when
\* it is a non-empty string of decimal digits.
SizeText(name, prefix) == Drop(name, Len(prefix))

IsNumber(digits) == digits # "" /\ PrefixLen(digits, 1, DecSet) = Len(digits)

ValidBits(n) == n % 8 = 0 /\ 8 <= n /\ n <= 256

BitsOutcome(size, kind) ==
    IF IsNumber(size) /\ ValidBits(DecValue(size))
    THEN Ok([k |-> kind, size |-> DecValue(size)])
    ELSE Err("InvalidSize")

\* What a root identifier is to resolve to: a basic name to its type, a
\* name that begins with uint, int or bytes to the sized type when its size
\* is valid and to the invalid-size error for every other size, and every
\* other identifier to the invalid-type error.
RootOutcome(name) ==
    CASE name = "address" -> Ok(TAddress)
      [] name = "function" -> Ok(TFunction)
      [] name = "bool" -> Ok(TBool)
      [] name = "string" -> Ok(TString)
      [] name = "bytes" -> Ok(TBytes)
      [] name = "uint" -> Ok(TUint(256))
      [] name = "int" -> Ok(TInt(256))
      [] has_prefix(name, "uint") -> BitsOutcome(SizeText(name, "uint"), "Uint")
      [] has_prefix(name, "int") -> BitsOutcome(SizeText(name, "int"), "Int")
      [] has_prefix(name, "bytes") ->
           IF /\ IsNumber(SizeText(name, "bytes"))
              /\ 1 <= DecValue(SizeText(name, "bytes"))
              /\ DecValue(SizeText(name, "bytes")) <= 32
           THEN Ok(TFixedBytes(DecValue(SizeText(name, "bytes"))))
           ELSE Err("InvalidSize")
      [] OTHER -> Err("InvalidTypeString")

\* The width invariants of a type, at every nesting level.
RECURSIVE WidthsValid(_)
WidthsValid(t) ==
    CASE t.k \in {"Int", "Uint"} -> ValidBits(t.size)
      [] t.k = "FixedBytes" -> 1 <= t.size /\ t.size <= 32
      [] t.k \in {"Array", "FixedArray"} -> WidthsValid(t.inner)
      [] t.k = "Tuple" -> \A i \in 1..Len(t.elems) : WidthsValid(t.elems[i])
      [] OTHER -> TRUE

BareRoot == aux.stem.k = "Root" /\ aux.sizes = <<>>

\* The specifier resolves exactly when every root in it does.
RECURSIVE RootsValid(_)
RootsValid(spec) ==
    IF spec.stem.k = "Root" THEN RootOutcome(spec.stem.span).ok
    ELSE \A i \in 1..Len(spec.stem.types) : RootsValid(spec.stem.types[i])

Prop(type, name) == [name |-> name, type |-> type]

BasicTypes == {"uint256", "bytes32", "string", "address", "bool", "bytes"}

NameSet == AlphaSet \cup DecSet \cup {"_"}

\* PropertyDef::root_type_name: the type without its array suffixes.
root_type_name(type) == Take(type, PrefixLen(type, 1, NameSet))

\* RootType::try_basic_solidity
try_basic_solidity(root) == root \in BasicTypes

\* The characters of signatures, in the order of their code points.
CodeOrder == " (),0123456789ABCDEFGHIJKLMNOPQRSTUVWXYZ[]_abcdefghijklmnopqrstuvwxyz"

CodeOf == [c \in CharsOf(CodeOrder) |-> CHOOSE i \in 1..Len(CodeOrder) : Char(CodeOrder, i) = c]

\* <str as Ord>::lt: byte-wise lexicographic order.
RECURSIVE StrLess(_, _)
StrLess(a, b) ==
    IF b = "" THEN FALSE
    ELSE IF a = "" THEN TRUE
    ELSE IF Char(a, 1) = Char(b, 1) THEN StrLess(Drop(a, 1), Drop(b, 1))
    ELSE CodeOf[Char(a, 1)] < CodeOf[Char(b, 1)]

\* slice::sort on strings.
RECURSIVE Insert(_, _)
Insert(x, sorted) ==
    IF sorted = <<>> THEN <<x>>
    ELSE IF StrLess(x, Head(sorted)) THEN <<x>> \o sorted
    ELSE <<Head(sorted)>> \o Insert(x, Tail(sorted))

RECURSIVE Sort(_)
Sort(seq) == IF seq = <<>> THEN <<>> ELSE Insert(Head(seq), Sort(Tail(seq)))

\* Vec::dedup: removes consecutive repeated elements.
RECURSIVE Dedup(_)
Dedup(seq) ==
    IF Len(seq) < 2 THEN seq
    ELSE IF seq[1] = seq[2] THEN Dedup(Tail(seq))
    ELSE <<seq[1]>> \o Dedup(Tail(seq))

RECURSIVE Concat(_)
Concat(strs) == IF strs = <<>> THEN "" ELSE Head(strs) \o Concat(Tail(strs))

RECURSIVE JoinProps(_)
JoinProps(props) ==
    IF props = <<>> THEN ""
    ELSE Head(props).type \o " " \o Head(props).name
            \o (IF Len(props) > 1 THEN "," ELSE "") \o JoinProps(Tail(props))

\* eip712_signature: Name(type1 name1,type2 name2,...)
eip712_signature(name, props) == name \o "(" \o JoinProps(props) \o ")"

(***************************************************************************)
(* sol! structs: eip712_root_type, eip712_components, eip712_encode_type   *)
(***************************************************************************)
eip712_root_type(types, name) == eip712_signature(name, types[name])

has_custom(type) == ~try_basic_solidity(root_type_name(type))

\* The properties of a struct whose type names a struct.
custom_fields(types, name) == SelectSeq(types[name], LAMBDA f : has_custom(f.type))

\* Components that list the direct references only.
eip712_components_direct(types, name) ==
    LET custom == custom_fields(types, name)
    IN Flatten([i \in 1..Len(custom) |->
            <<eip712_root_type(types, root_type_name(custom[i].type))>>])

RECURSIVE eip712_components(_, _)
eip712_components(types, name) ==
    LET custom == custom_fields(types, name)
    IN Flatten([i \in 1..Len(custom) |->
            LET t == root_type_name(custom[i].type)
            IN <<eip712_root_type(types, t)>> \o eip712_components(types, t)])

\* An encode_type that removes repeated components but keeps their order.
RECURSIVE KeepFirst(_)
KeepFirst(seq) ==
    IF seq = <<>> THEN <<>>
    ELSE LET rest == KeepFirst(SubSeq(seq, 1, Len(seq) - 1))
             x == seq[Len(seq)]
         IN IF x \in Range(rest) THEN rest ELSE rest \o <<x>>

eip712_encode_type_unsorted(types, name) ==
    IF custom_fields(types, name) = <<>> THEN eip712_root_type(types, name)
    ELSE eip712_root_type(types, name) \o Concat(KeepFirst(eip712_components(types, name)))

\* YlmStruct::eip712_encode_type: the macro's override for a struct without
\* struct fields, else the root type followed by the components, sorted and
\* without repetition.
eip712_encode_type(types, name) ==
    IF custom_fields(types, name) = <<>> THEN eip712_root_type(types, name)
    ELSE eip712_root_type(types, name) \o Concat(Dedup(Sort(eip712_components(types, name))))

(***************************************************************************)
(* Resolver: detect_cycle, linearize, encode_type, resolve, encode_data    *)
(***************************************************************************)
\* Resolver::ingest: the edges of a type are the root types of its properties.
edges(types, name) == [i \in 1..Len(types[name]) |-> root_type_name(types[name][i].type)]

\* TypeDef::eip712_encode_type
typedef_encode_type(types, name) == eip712_signature(name, types[name])

\* DfsContext: the names on the current path, the names already visited, and
\* the number of calls made so far.
DfsContext0 == [stack |-> {}, visited |-> {}, calls |-> 0, cycle |-> FALSE]

RECURSIVE detect_cycle(_, _, _)
RECURSIVE detect_cycle_any(_, _, _, _)

\* edges.iter().any(|edge| self.detect_cycle(edge, context))
detect_cycle_any(types, es, i, context) ==
    IF i > Len(es) THEN context
    ELSE LET c == detect_cycle(types, es[i], context)
         IN IF c.cycle THEN c ELSE detect_cycle_any(types, es, i + 1, c)

detect_cycle(types, type_name, context) ==
    LET ctx == [context EXCEPT !.calls = @ + 1]
    IN IF type_name \notin DOMAIN types THEN ctx
       ELSE IF type_name \in ctx.stack THEN [ctx EXCEPT !.cycle = TRUE]
       ELSE IF type_name \in ctx.visited THEN ctx
       ELSE LET entered == [ctx EXCEPT !.visited = @ \cup {type_name},
                                       !.stack = @ \cup {type_name}]
                c == detect_cycle_any(types, edges(types, type_name), 1, entered)
            IN IF c.cycle THEN c ELSE [c EXCEPT !.stack = @ \ {type_name}]

RECURSIVE linearize_into(_, _, _)
RECURSIVE linearize_each(_, _, _, _)

linearize_each(types, es, i, resolution) ==
    IF i > Len(es) THEN Ok(resolution)
    ELSE LET r == linearize_into(types, resolution, es[i])
         IN IF ~r.ok THEN r ELSE linearize_each(types, es, i + 1, r.v)

linearize_into(types, resolution, root_type) ==
    IF try_basic_solidity(root_type) THEN Ok(resolution)
    ELSE IF root_type \notin DOMAIN types THEN Err([MissingType |-> root_type])
    ELSE IF root_type \in Range(resolution) THEN Ok(resolution)
    ELSE linearize_each(types, edges(types, root_type), 1, resolution \o <<root_type>>)

CircularDependency(name) == [CircularDependency |-> name]

linearize(types, type_name) ==
    IF detect_cycle(types, type_name, DfsContext0).cycle
    THEN Err(CircularDependency(type_name))
    ELSE linearize_into(types, <<>>, type_name)

\* Resolver::encode_type: the first definition, then the references in the
\* order in which eip712_encode_type of the generated structs lists them.
resolver_encode_type(types, name) ==
    LET linear == linearize(types, name)
    IN IF ~linear.ok THEN linear
       ELSE IF linear.v = <<>> THEN unwrap(NoOption)
       ELSE LET first == typedef_encode_type(types, linear.v[1])
                refs == [i \in 1..(Len(linear.v) - 1) |->
                            typedef_encode_type(types, linear.v[i + 1])]
            IN Ok(first \o Concat(Sort(refs)))

\* Resolver::resolve: the type of a name, unless its definitions are cyclic
\* or missing.
resolver_resolve(types, type_name) ==
    LET linear == linearize(types, type_name)
    IN IF ~linear.ok THEN linear ELSE Ok([resolved |-> type_name])

(***************************************************************************)
(* TypedData: coerce, encode_type, type_hash, encode_data, hash_struct,    *)
(* eip712_signing_hash.  sha3 is an injective constructor; the message is  *)
(* known only by whether it coerces to the primary type.                   *)
(***************************************************************************)
sha3(x) == [sha3 |-> x]

TypedData(types, primary_type, message) ==
    [resolver |-> types, primary_type |-> primary_type, message |-> message,
     domain |-> "domain"]

resolve(td) == resolver_resolve(td.resolver, td.primary_type)

coerce(td) ==
    LET t == resolve(td)
    IN IF ~t.ok THEN t
       ELSE IF td.message = "ill-typed" THEN Err([CoerceJson |-> td.primary_type])
       ELSE Ok([coerced |-> td.message, as |-> t.v])

encode_type(td) == resolver_encode_type(td.resolver, td.primary_type)

type_hash(td) ==
    LET t == encode_type(td)
    IN IF t.ok THEN Ok(sha3(t.v)) ELSE t

\* Resolver::encode_data: None for a value that is not a struct.
resolver_encode_data(types, value) ==
    IF value.as.resolved \in DOMAIN types THEN Some([encode_data |-> value]) ELSE NoOption

encode_data(td) ==
    IF ~coerce(td).ok THEN coerce(td)
    ELSE unwrap(resolver_encode_data(td.resolver, coerce(td).v))

\* hash_struct of the type hash th and the encoded data ed.
hash_pair(th, ed) ==
    IF ~th.ok THEN th
    ELSE IF ~ed.ok THEN ed
    ELSE Ok(sha3(<<th.v, ed.v>>))

hash_struct(td) == hash_pair(type_hash(td), encode_data(td))

separator(domain) == sha3([separator |-> domain])

\* A signing hash that never hashes the message.
eip712_signing_hash_domain_only(td) ==
    Ok(sha3(<<"1901", separator(td.domain)>>))

\* The signing hash over the domain separator and the struct hash hs.
hash_with_struct(domain, hs) ==
    IF ~hs.ok THEN hs
    ELSE Ok(sha3(<<"1901", separator(domain), hs.v>>))

\* A signing hash that hashes the message whatever the primary type is.
eip712_signing_hash_always_struct(td) ==
    hash_with_struct(td.domain, hash_struct(td))

eip712_signing_hash(td) ==
    IF td.primary_type # "EIP712Domain"
    THEN hash_with_struct(td.domain, hash_struct(td))
    ELSE Ok(sha3(<<"1901", separator(td.domain)>>))

\* The length len of buf[..len] that a signing hash was taken over: the two
\* magic bytes, then 32 bytes for the separator and for the struct hash.
signing_hash_len(h) == 2 + 32 * (Len(h.sha3) - 1)

(***************************************************************************)
(* Specification of the EIP-712 operations                                 *)
(***************************************************************************)
\* Most struct references drawn for one struct of a generated type map.
MaxRefs == 2

GenNames == {"X", "Y", "Z"}

\* The properties of a generated struct: a scalar, then one property per
\* reference; a reference to Z is an array of Z.
GenProps(refs) ==
    <<Prop("uint256", "v")>> \o
        [i \in 1..Len(refs) |->
            Prop(IF refs[i] = "Z" THEN "Z[]" ELSE refs[i], "r" \o ToDec(i))]

\* X and Y draw up to MaxRefs references, Z at most one.
GenRefs == {refs \in [GenNames -> SeqsUpTo(GenNames, MaxRefs)] : Len(refs["Z"]) <= 1}

GenTypes == {[n \in GenNames |-> GenProps(refs[n])] : refs \in GenRefs}

PersonProps == <<Prop("string", "name"), Prop("address", "wallet")>>

NestingTypes ==
    [n \in {"A", "B", "C", "D"} |->
        CASE n = "A" -> <<Prop("uint256", "a")>>
          [] n = "B" -> <<Prop("bytes32", "b")>>
          [] n = "C" -> <<Prop("A", "a"), Prop("B", "b")>>
          [] n = "D" -> <<Prop("C", "c"), Prop("A", "a"), Prop("B", "b")>>]

MailTypes ==
    [n \in {"EIP712Domain", "Person", "Mail"} |->
        CASE n = "EIP712Domain" -> <<>>
          [] n = "Person" -> PersonProps
          [] n = "Mail" -> <<Prop("Person", "from"), Prop("Person", "to"),
                             Prop("string", "contents")>>]

RecursiveMailTypes ==
    [n \in {"EIP712Domain", "Person", "Mail"} |->
        CASE n = "EIP712Domain" -> <<>>
          [] n = "Person" -> PersonProps
          [] n = "Mail" -> <<Prop("Person", "from"), Prop("Person", "to"),
                             Prop("string", "contents"), Prop("Mail", "replyTo")>>]

DomainSelfTypes ==
    [n \in {"EIP712Domain", "Mail"} |->
        CASE n = "EIP712Domain" -> <<Prop("string", "name"), Prop("EIP712Domain", "parent")>>
          [] n = "Mail" -> <<Prop("string", "contents"), Prop("EIP712Domain", "domain")>>]

Documents == GenTypes \cup {NestingTypes, MailTypes, RecursiveMailTypes, DomainSelfTypes}

Messages == {"well-typed", "ill-typed"}

\* The struct names that n refers to directly, and through any number of
\* references.
Refs(types, n) == {root_type_name(types[n][i].type) : i \in 1..Len(types[n])} \cap DOMAIN types

RECURSIVE Closure(_, _)
Closure(types, seen) ==
    LET more == seen \cup UNION {Refs(types, m) : m \in seen}
    IN IF more = seen THEN seen ELSE Closure(types, more)

Reachable(types, n) == Closure(types, Refs(types, n))

Cyclic(types, n) == n \in Reachable(types, n)

CycleFrom(types, n) == \E m \in Reachable(types, n) \cup {n} : Cyclic(types, m)

InitEip712 ==
    /\ pc = "typed"
    /\ tmap \in Documents
    /\ text \in DOMAIN tmap
    /\ val \in Messages
    /\ ty = None /\ data = None /\ res = None /\ aux = None

TD == TypedData(tmap, text, val)

\* The calls of detect_cycle that the operation makes on its first walk.
Walk == detect_cycle(tmap, text, DfsContext0).calls

EncodeType ==
    /\ pc = "typed"
    /\ res' = encode_type(TD)
    /\ aux' = Walk
    /\ pc' = "encode_type"
    /\ UNCHANGED <<ty, val, data, text, tmap>>

TypeHash ==
    /\ pc = "typed"
    /\ res' = type_hash(TD)
    /\ aux' = Walk
    /\ pc' = "type_hash"
    /\ UNCHANGED <<ty, val, data, text, tmap>>

EncodeData ==
    /\ pc = "typed"
    /\ res' = encode_data(TD)
    /\ aux' = Walk
    /\ pc' = "encode_data"
    /\ UNCHANGED <<ty, val, data, text, tmap>>

HashStruct ==
    /\ pc = "typed"
    /\ res' = hash_struct(TD)
    /\ aux' = Walk
    /\ pc' = "hash_struct"
    /\ UNCHANGED <<ty, val, data, text, tmap>>

Eip712SigningHash ==
    /\ pc = "typed"
    /\ res' = eip712_signing_hash(TD)
    /\ aux' = IF text # "EIP712Domain" THEN Walk ELSE 0
    /\ pc' = "eip712_signing_hash"
    /\ UNCHANGED <<ty, val, data, text, tmap>>

\* The generated eip712_encode_type of a struct; structs that contain
\* themselves do not compile.
Eip712EncodeType ==
    /\ pc = "typed"
    /\ ~CycleFrom(tmap, text)
    /\ res' = Ok(eip712_encode_type(tmap, text))
    /\ pc' = "eip712_encode_type"
    /\ UNCHANGED <<ty, val, data, text, tmap, aux>>

NextEip712 == EncodeType \/ TypeHash \/ HashStruct \/ Eip712SigningHash \/ Eip712EncodeType

SpecEip712 == InitEip712 /\ [][NextEip712]_vars

(***************************************************************************)
(* Properties of the EIP-712 operations                                    *)
(***************************************************************************)
\* The definition of a struct as encode_type writes it.
Signature(types, n) == eip712_signature(n, types[n])

\* The sequences that list every element of S once.
Perms(S) == {p \in [1..Cardinality(S) -> S] : \A i, j \in DOMAIN p : p[i] = p[j] => i = j}

Signatures(types, p) == Concat([i \in DOMAIN p |-> Signature(types, p[i])])

\* The struct names in the order in which a depth-first walk from n first
\* meets them, n first.
RECURSIVE Discover(_, _, _)
RECURSIVE DiscoverEach(_, _, _, _)
DiscoverEach(types, props, i, found) ==
    IF i > Len(props) THEN found
    ELSE DiscoverEach(types, props, i + 1,
                      Discover(types, root_type_name(props[i].type), found))

Discover(types, n, found) ==
    IF n \notin DOMAIN types \/ n \in Range(found) THEN found
    ELSE DiscoverEach(types, types[n], 1, found \o <<n>>)

DiscoveryOrder(types, n) == Tail(Discover(types, n, <<>>))

\* The referenced structs in ascending order of their definitions.
AscendingOrder(types, n) ==
    CHOOSE p \in Perms(Reachable(types, n) \ {n}) :
        \A i, j \in DOMAIN p : i < j => StrLess(Signature(types, p[i]), Signature(types, p[j]))

EncodedType == pc \in {"encode_type", "eip712_encode_type"}

C9_EachOnce ==
    (EncodedType /\ ~CycleFrom(tmap, text)) =>
        /\ res.ok
        /\ \E p \in Perms(Reachable(tmap, text)) :
              res.v = Signature(tmap, text) \o Signatures(tmap, p)
        /\ (tmap = MailTypes /\ text = "Mail") =>
              res.v = "Mail(Person from,Person to,string contents)Person(string name,address wallet)"

C9_Witness ==
    /\ pc = "encode_type"
    /\ tmap = MailTypes
    /\ text = "Mail"
    /\ res = Ok("Mail(Person from,Person to,string contents)Person(string name,address wallet)")

\* The references of a type map, counted with repetition.
TotalEdges(types) == SumSeq([i \in 1..Cardinality(DOMAIN types) |->
    Len(types[(CHOOSE p \in Perms(DOMAIN types) : TRUE)[i]])])

Hashed == pc \in {"encode_type", "type_hash", "hash_struct", "eip712_signing_hash"}

\* C10 as stated: when the primary type reaches itself, encode_type,
\* type_hash, hash_struct and eip712_signing_hash all end, after a bounded
\* walk, with CircularDependency of the primary type.
C10_CycleRejectedByAll ==
    (Hashed /\ Cyclic(tmap, text)) =>
        /\ res = Err(CircularDependency(text))
        /\ aux <= 1 + TotalEdges(tmap)

\* C10: when the primary type reaches itself, encode_type, type_hash and
\* hash_struct end, after a bounded walk, with CircularDependency of the
\* primary type, and so does eip712_signing_hash unless the primary type is
\* EIP712Domain, whose signing hash leaves the message out.
C10_CycleRejected ==
    (Hashed /\ Cyclic(tmap, text)) =>
        /\ (pc = "eip712_signing_hash" /\ text = "EIP712Domain")
              \/ res = Err(CircularDependency(text))
        /\ aux <= 1 + TotalEdges(tmap)

C10_Witness ==
    /\ pc = "eip712_signing_hash"
    /\ tmap = RecursiveMailTypes
    /\ text = "Mail"
    /\ Cyclic(tmap, text)
    /\ res = Err(CircularDependency("Mail"))

\* C11: eip712_signing_hash is the hash of 0x1901, the domain separator and
\* hash_struct() over 66 bytes when the primary type is not EIP712Domain (the
\* error of hash_struct otherwise), and the hash of 0x1901 and the domain
\* separator over 34 bytes when it is EIP712Domain, whatever the message and
\* the type map are.
C11_SigningHash ==
    pc = "eip712_signing_hash" =>
        IF text # "EIP712Domain"
        THEN IF hash_struct(TD).ok
             THEN /\ res = Ok(sha3(<<"1901", separator("domain"), hash_struct(TD).v>>))
                  /\ signing_hash_len(res.v) = 66
             ELSE res = hash_struct(TD)
        ELSE /\ res = Ok(sha3(<<"1901", separator("domain")>>))
             /\ signing_hash_len(res.v) = 34

C11_Witness ==
    /\ pc = "eip712_signing_hash"
    /\ text = "EIP712Domain"
    /\ val = "ill-typed"
    /\ Cyclic(tmap, text)
    /\ res.ok
    /\ signing_hash_len(res.v) = 34

(***************************************************************************)
(* Specification of coerce_str on bytes                                    *)
(***************************************************************************)
\* Longest run of hex digits drawn as an input.
MaxHex == 4

HexDigitTexts == {"0", "1", "a", "F"}

HexPrefixes == {"", "0x", "0X"}

HexTails == {"", "g", " "}

\* The concatenation of a sequence of texts.
RECURSIVE JoinAll(_)
JoinAll(texts) == IF texts = <<>> THEN "" ELSE Head(texts) \o JoinAll(Tail(texts))

InitBytes ==
    /\ pc = "text"
    /\ ty = TBytes
    /\ aux \in [prefix : HexPrefixes, digits : SeqsUpTo(HexDigitTexts, MaxHex), tail : HexTails]
    /\ text = aux.prefix \o JoinAll(aux.digits) \o aux.tail
    /\ val = None /\ data = None /\ tmap = None /\ res = None

NextBytes == CoerceStr

SpecBytes == InitBytes /\ [][NextBytes]_vars

\* The lower-case hex digit of a nibble, and a drawn digit in lower case.
LowerDigit(n) == Char(HexChars, n + 1)

Lowered(c) == IF c = "F" THEN "f" ELSE c

\* bs are the bytes that the drawn digits denote, two digits a byte.
Denotes(bs, digits) ==
    /\ Len(bs) * 2 = Len(digits)
    /\ \A i \in 1..Len(bs) :
          /\ bs[i] \in 0..255
          /\ LowerDigit(bs[i] \div 16) = Lowered(digits[2 * i - 1])
          /\ LowerDigit(bs[i] % 16) = Lowered(digits[2 * i])

\* The drawn text is an optional 0x followed by hex digits only.
HexOnly == aux.prefix \in {"", "0x"} /\ aux.tail = ""

EventParam(spec, indexed) == [spec |-> spec, indexed |-> indexed]

Event(name, inputs, anonymous) == [name |-> name, inputs |-> inputs, anonymous |-> anonymous]

\* Event::selector: the hash of the event's signature.
selector(event) ==
    sha3([name |-> event.name, types |-> [i \in 1..Len(event.inputs) |-> event.inputs[i].spec]])

\* <EventParam as Specifier>::resolve for a parameter without components.
param_resolve(param) == type_specifier_resolve(param.spec)

\* DynYlmEvent::new_unchecked
new_unchecked(topic_0, indexed, body) == [topic_0 |-> topic_0, indexed |-> indexed, body |-> body]

\* usize of a bool
as_usize(b) == IF b THEN 1 ELSE 0

TopicLengthMismatch(expected, actual) ==
    Err([k |-> "TopicLengthMismatch", expected |-> expected, actual |-> actual])

event_topic_0(event) == IF event.anonymous THEN NoOption ELSE Some(selector(event))

\* The end of Event::resolve without the check of the number of topics.
event_resolved_unchecked(event, indexed, body) ==
    Ok(new_unchecked(event_topic_0(event), indexed, TTuple(body)))

\* The end of Event::resolve, after the loop over the inputs.
event_resolved(event, indexed, body) ==
    IF Len(indexed) + as_usize(event_topic_0(event).some) > 4
    THEN TopicLengthMismatch(4, Len(indexed) + as_usize(event_topic_0(event).some))
    ELSE Ok(new_unchecked(event_topic_0(event), indexed, TTuple(body)))

\* The loop of Event::resolve over the inputs from the i-th on.
RECURSIVE event_inputs(_, _, _, _)
event_input(event, i, indexed, body, r) ==
    IF ~r.ok THEN r
    ELSE IF event.inputs[i].indexed
    THEN event_inputs(event, i + 1, Append(indexed, r.v), body)
    ELSE event_inputs(event, i + 1, indexed, Append(body, r.v))

event_inputs(event, i, indexed, body) ==
    IF i > Len(event.inputs) THEN event_resolved(event, indexed, body)
    ELSE event_input(event, i, indexed, body, param_resolve(event.inputs[i]))

\* <Event as Specifier<DynYlmEvent>>::resolve
event_resolve(event) == event_inputs(event, 1, <<>>, <<>>)

\* DynYlmType::as_tuple
as_tuple(t) == IF t.k = "Tuple" THEN Some(t.elems) ELSE NoOption

\* DynYlmEvent::new
event_new(topic_0, indexed, body) ==
    IF Len(indexed) + as_usize(topic_0.some) > 4 \/ ~as_tuple(body).some
    THEN NoOption
    ELSE Some(new_unchecked(topic_0, indexed, body))

EventResolve ==
    /\ pc = "event"
    /\ res' = event_resolve(Event(aux.name, aux.inputs, aux.anonymous))
    /\ pc' = "event_resolved"
    /\ UNCHANGED <<ty, val, data, text, tmap, aux>>

EventNew ==
    /\ pc = "parts"
    /\ res' = event_new(aux.topic_0, aux.indexed, aux.body)
    /\ pc' = "event_new"
    /\ UNCHANGED <<ty, val, data, text, tmap, aux>>

(***************************************************************************)
(* Specification of the two constructors of DynYlmEvent                    *)
(***************************************************************************)
\* Most inputs of a drawn event, and most indexed types of drawn parts.
MaxInputs == 5

ParamChoices ==
    { EventParam(TypeSpecifier(RootStem("bool"), <<>>), TRUE),
      EventParam(TypeSpecifier(RootStem("uint8"), <<>>), TRUE),
      EventParam(TypeSpecifier(RootStem("bool"), <<>>), FALSE),
      EventParam(TypeSpecifier(RootStem("uint7"), <<>>), TRUE) }

BodyChoices ==
    { TTuple(<<>>), TTuple(<<TBool>>), TBool, TArray(TBool),
      TCustomStruct("S", <<"a">>, <<TBool>>) }

InitEvent ==
    /\ \/ /\ pc = "event"
          /\ aux \in [name : {"E"}, inputs : SeqsUpTo(ParamChoices, MaxInputs),
                      anonymous : BOOLEAN]
       \/ /\ pc = "parts"
          /\ aux \in [topic_0 : {NoOption, Some(sha3("E"))},
                      indexed : SeqsUpTo({TBool, TUint(8)}, MaxInputs),
                      body : BodyChoices]
    /\ ty = None /\ val = None /\ data = None /\ text = None /\ tmap = None /\ res = None

NextEvent == EventResolve \/ EventNew

SpecEvent == InitEvent /\ [][NextEvent]_vars

\* The drawn inputs that are indexed.
IndexedInputs == SelectSeq(aux.inputs, LAMBDA p : p.indexed)

\* Every drawn input has a type that resolves.
InputsResolve == \A i \in 1..Len(aux.inputs) : param_resolve(aux.inputs[i]).ok

\* The topics of an event: its indexed parameters, and its selector unless
\* it is anonymous.
TopicsOf(ev) == Len(ev.indexed) + (IF ev.topic_0.some THEN 1 ELSE 0)

\* C22: Event::resolve fails and DynYlmEvent::new gives None when the
\* indexed parameters, plus one unless anonymous, are more than 4, so an
\* event made by either has at most 4 topics; new also wants a tuple body.
C22_TopicCount ==
    /\ pc = "event_resolved" =>
          LET n == Len(IndexedInputs) + (IF aux.anonymous THEN 0 ELSE 1)
          IN /\ n > 4 => ~res.ok
             /\ (n > 4 /\ InputsResolve) => res = TopicLengthMismatch(4, n)
             /\ (n <= 4 /\ InputsResolve) =>
                   /\ res.ok
                   /\ Len(res.v.indexed) = Len(IndexedInputs)
                   /\ res.v.topic_0.some = ~aux.anonymous
                   /\ res.v.body.k = "Tuple"
             /\ res.ok => TopicsOf(res.v) <= 4
    /\ pc = "event_new" =>
          LET n == Len(aux.indexed) + (IF aux.topic_0.some THEN 1 ELSE 0)
          IN /\ (n > 4 \/ aux.body.k # "Tuple") => res = NoOption
             /\ (n <= 4 /\ aux.body.k = "Tuple") =>
                   res = Some([topic_0 |-> aux.topic_0, indexed |-> aux.indexed,
                               body |-> aux.body])
             /\ res.some => TopicsOf(res.v) <= 4

C22_Witness ==
    /\ pc = "event_resolved"
    /\ ~aux.anonymous
    /\ Len(IndexedInputs) = 4
    /\ InputsResolve
    /\ res = TopicLengthMismatch(4, 5)

(***************************************************************************)
(* Type strings: TypeSpecifier::parse of the parser crate, DynYlmType::parse *)
(* and DynYlmType::ylm_type_name (dynamic/ty.rs).  A type string is a root *)
(* identifier or a parenthesised, comma-separated tuple of type strings,   *)
(* followed by array suffixes; it holds no white space.                    *)
(***************************************************************************)
IdentSet == AlphaSet \cup DecSet \cup {"_", "$"}

\* One array suffix: [] is the size 0, [N] a non-zero decimal size.
suffix_size(digits) ==
    IF digits = "" THEN Ok(0)
    ELSE IF DecValue(digits) = 0 THEN Err("InvalidSize")
    ELSE Ok(DecValue(digits))

RECURSIVE type_suffixes(_, _, _), type_specifier_parse(_), tuple_types(_, _)
type_suffix(stem, sizes, s, n, size) ==
    IF ~StartsWith(Drop(s, n + 1), "]") THEN Err("parse")
    ELSE IF ~size.ok THEN size
    ELSE type_suffixes(stem, Append(sizes, size.v), Drop(s, n + 2))

\* The suffixes after a stem, in the order of the text.
type_suffixes(stem, sizes, s) ==
    IF ~StartsWith(s, "[") THEN Parsed(TypeSpecifier(stem, sizes), s)
    ELSE type_suffix(stem, sizes, s, PrefixLen(s, 2, DecSet) - 1,
                     suffix_size(SubSeq(s, 2, PrefixLen(s, 2, DecSet))))

tuple_type(acc, r) ==
    IF ~r.ok THEN r
    ELSE IF StartsWith(r.rest, ",") THEN tuple_types(Append(acc, r.v), Drop(r.rest, 1))
    ELSE IF StartsWith(r.rest, ")") THEN Parsed(TupleStem(Append(acc, r.v)), Drop(r.rest, 1))
    ELSE Err("parse")

\* The types of a tuple after its '(' or after a ','; a ')' here closes the
\* empty tuple or follows a trailing comma.
tuple_types(acc, s) ==
    IF StartsWith(s, ")") THEN Parsed(TupleStem(acc), Drop(s, 1))
    ELSE tuple_type(acc, type_specifier_parse(s))

root_stem(s, n) ==
    IF n = 0 THEN Err("parse") ELSE Parsed(RootStem(Take(s, n)), Drop(s, n))

type_stem_parse(s) ==
    IF StartsWith(s, "(") THEN tuple_types(<<>>, Drop(s, 1))
    ELSE IF has_prefix(s, "tuple(") THEN tuple_types(<<>>, Drop(s, 6))
    ELSE root_stem(s, PrefixLen(s, 1, IdentSet))

stem_suffixes(r) == IF ~r.ok THEN r ELSE type_suffixes(r.v, <<>>, r.rest)

\* TypeSpecifier::parse, as a parser that leaves the rest of the text.
type_specifier_parse(s) == stem_suffixes(type_stem_parse(s))

parsed_resolve(r) ==
    IF ~r.ok THEN r
    ELSE IF r.rest # "" THEN Err("parse")
    ELSE type_specifier_resolve(r.v)

\* DynYlmType::parse
type_parse(s) == parsed_resolve(type_specifier_parse(s))

\* DynYlmType::ylm_type_name_raw, with and without the comma of a 1-tuple.
RECURSIVE ylm_type_names(_, _), ylm_type_name(_)
ylm_type_names(types, i) ==
    IF i > Len(types) THEN ""
    ELSE (IF i > 1 THEN "," ELSE "") \o ylm_type_name(types[i]) \o ylm_type_names(types, i + 1)

tuple_name_no_comma(types) == "(" \o ylm_type_names(types, 1) \o ")"

\* The name of a tuple: a 1-tuple has a comma before its ')'.
tuple_name(types) ==
    "(" \o ylm_type_names(types, 1) \o (IF Len(types) = 1 THEN "," ELSE "") \o ")"

ylm_type_name(t) ==
    CASE t.k = "Address" -> "address"
      [] t.k = "Function" -> "function"
      [] t.k = "Bool" -> "bool"
      [] t.k = "Bytes" -> "bytes"
      [] t.k = "String" -> "string"
      [] t.k = "FixedBytes" -> "bytes" \o ToDec(t.size)
      [] t.k = "Int" -> "int" \o ToDec(t.size)
      [] t.k = "Uint" -> "uint" \o ToDec(t.size)
      [] t.k \in {"Tuple", "CustomStruct"} -> tuple_name(t.elems)
      [] t.k = "Array" -> ylm_type_name(t.inner) \o "[]"
      [] t.k = "FixedArray" -> ylm_type_name(t.inner) \o "[" \o ToDec(t.size) \o "]"

ParseType ==
    /\ pc \in {"type_text", "named"}
    /\ res' = type_parse(text)
    /\ pc' = IF pc = "type_text" THEN "parsed" ELSE "reparsed"
    /\ UNCHANGED <<ty, val, data, text, tmap, aux>>

\* DynYlmType::ylm_type_name, of a drawn type or of a type just parsed.
YlmTypeName ==
    \/ /\ pc = "type"
       /\ text' = ylm_type_name(ty)
       /\ pc' = "named"
       /\ UNCHANGED <<ty, val, data, tmap, res, aux>>
    \/ /\ pc = "parsed"
       /\ res.ok
       /\ data' = ylm_type_name(res.v)
       /\ pc' = "renamed"
       /\ UNCHANGED <<ty, val, text, tmap, res, aux>>

(***************************************************************************)
(* Specification of the array suffixes of a type string                    *)
(***************************************************************************)
\* Most array suffixes of a drawn type string.
MaxSuffixDepth == 3

StemTexts == {"uint256", "bool", "(bool,uint8)", "()"}

SuffixText(size) == IF size = 0 THEN "[]" ELSE "[" \o ToDec(size) \o "]"

InitSuffix ==
    /\ pc = "type_text"
    /\ aux \in [stem : StemTexts, sizes : SeqsUpTo({0, 2, 3}, MaxSuffixDepth)]
    /\ text = aux.stem \o JoinAll([i \in 1..Len(aux.sizes) |-> SuffixText(aux.sizes[i])])
    /\ ty = None /\ val = None /\ data = None /\ tmap = None /\ res = None

NextSuffix == ParseType

SpecSuffix == InitSuffix /\ [][NextSuffix]_vars

StemType(stem) ==
    CASE stem = "uint256" -> TUint(256)
      [] stem = "bool" -> TBool
      [] stem = "(bool,uint8)" -> TTuple(<<TBool, TUint(8)>>)
      [] stem = "()" -> TTuple(<<>>)

\* The type whose outermost array is the last suffix, around the type of
\* the suffixes before it.
RECURSIVE OutermostLast(_, _)
OutermostLast(t, sizes) ==
    IF sizes = <<>> THEN t
    ELSE IF sizes[Len(sizes)] = 0
    THEN TArray(OutermostLast(t, SubSeq(sizes, 1, Len(sizes) - 1)))
    ELSE TFixedArray(OutermostLast(t, SubSeq(sizes, 1, Len(sizes) - 1)), sizes[Len(sizes)])

\* C23: the array suffixes wrap the stem from left to right, so that the
\* right-most suffix is the outermost type.
C23_SuffixOrder ==
    pc = "parsed" =>
        /\ res = Ok(OutermostLast(StemType(aux.stem), aux.sizes))
        /\ text = "bool[2][]" => res = Ok(TArray(TFixedArray(TBool, 2)))
        /\ text = "bool[][3]" => res = Ok(TFixedArray(TArray(TBool), 3))
        /\ text = "uint256[2][3]" => res = Ok(TFixedArray(TFixedArray(TUint(256), 2), 3))

C23_Witness ==
    /\ pc = "parsed"
    /\ text = "uint256[2][3]"
    /\ res = Ok(TFixedArray(TFixedArray(TUint(256), 2), 3))

(***************************************************************************)
(* Specification of the round trip between types and their names           *)
(***************************************************************************)
\* Most fields of a drawn tuple type.
MaxNameFields == 2

NameLeaves ==
    { TBool, TAddress, TFunction, TBytes, TString, TInt(8), TInt(256), TUint(8),
      TUint(256), TFixedBytes(1), TFixedBytes(32) }

NameFields == {TBool, TUint(8), TBytes, TTuple(<<>>), TTuple(<<TBool>>), TArray(TBool)}

NameArrays == {TArray(t) : t \in NameLeaves} \cup {TFixedArray(t, n) : t \in NameLeaves, n \in {1, 2}}

NameTuples == {TTuple(f) : f \in SeqsUpTo(NameFields, MaxNameFields)}

NameNested ==
    {TArray(t) : t \in NameArrays \cup NameTuples}
        \cup {TFixedArray(t, 12) : t \in NameArrays \cup NameTuples}
        \cup {TTuple(<<t>>) : t \in NameArrays \cup NameTuples}

NameTypes == NameLeaves \cup NameArrays \cup NameTuples \cup NameNested

CanonicalTexts ==
    { "bool", "address", "function", "bytes", "string", "int8", "int256", "uint8", "uint256",
      "bytes1", "bytes32", "()", "(bool,)", "(bool,uint8)", "((),)", "((bool,),)",
      "bool[]", "bool[2]", "bool[2][]", "bool[][3]", "uint256[2][3]", "(bool,)[3]",
      "((),(bool,))", "(uint8[],bytes1)[2][]", "(bool,(uint8,string[]))", "()[]",
      "(address,bytes,(bool,(string,uint256)[][3]))[2]" }

InitName ==
    /\ \/ /\ pc = "type"
          /\ ty \in NameTypes
          /\ text = None
       \/ /\ pc = "type_text"
          /\ ty = None
          /\ text \in CanonicalTexts
    /\ val = None /\ data = None /\ tmap = None /\ res = None /\ aux = None

NextName == ParseType \/ YlmTypeName

SpecName == InitName /\ [][NextName]_vars

\* C24: the name of a type parses back to the type, the name of a 1-tuple
\* ends in ",)", and a canonical type string is the name of what it parses
\* to.
C24_NameRoundTrip ==
    /\ pc = "reparsed" => res = Ok(ty)
    /\ (pc = "named" /\ ty = TTuple(<<TBool>>)) => text = "(bool,)"
    /\ (pc = "named" /\ ty = TArray(TTuple(<<TArray(TBool)>>))) => text = "(bool[],)[]"
    /\ pc = "parsed" => res.ok
    /\ pc = "renamed" => data = text

C24_Witness ==
    /\ pc = "reparsed"
    /\ ty = TTuple(<<TTuple(<<TBool>>)>>)
    /\ text = "((bool,),)"
    /\ res = Ok(ty)

(***************************************************************************)
(* ext/abi.rs: encoding the inputs and outputs of a Function of the JSON   *)
(* ABI.  A Function is [name, inputs, outputs]; a Param carries its type   *)
(* specifier and has no components.                                        *)
(***************************************************************************)
Param(spec) == [spec |-> spec]

Function(name, inputs, outputs) == [name |-> name, inputs |-> inputs, outputs |-> outputs]

\* Function::selector: four bytes of the hash of the signature.
function_selector(f) == [i \in 1..4 |-> [selector |-> f.name, byte |-> i]]

\* DynYlmValue::encode_seq
encode_seq(values) == encode_sequence([i \in 1..Len(values) |-> tokenize(values[i])])

EncodeLengthMismatch(expected, actual) ==
    Err([k |-> "EncodeLengthMismatch", expected |-> expected, actual |-> actual])

TypeMismatch(t, value) ==
    Err([k |-> "TypeMismatch", expected |-> ylm_type_name(t), actual |-> value])

\* The loop of encode_typeck from the i-th pair on.
RECURSIVE typeck_from(_, _, _)
typeck_pair(params, values, i, t) ==
    IF ~t.ok THEN t
    ELSE IF ~matches(t.v, values[i]) THEN TypeMismatch(t.v, values[i])
    ELSE typeck_from(params, values, i + 1)

typeck_from(params, values, i) ==
    IF i > Len(params) THEN Ok(encode_seq(values))
    ELSE typeck_pair(params, values, i, param_resolve(params[i]))

encode_typeck(params, values) ==
    IF Len(values) # Len(params) THEN EncodeLengthMismatch(Len(params), Len(values))
    ELSE typeck_from(params, values, 1)

\* prefix_selector, mapped over a result.
prefix_selector(sel, r) == IF r.ok THEN Ok(sel \o r.v) ELSE r

\* <Function as JsonAbiExt>::abi_encode_input
abi_encode_input(f, values) == prefix_selector(function_selector(f), encode_typeck(f.inputs, values))

\* <Function as JsonAbiExt>::abi_encode_input_raw
abi_encode_input_raw(f, values) == encode_typeck(f.inputs, values)

\* <Function as FunctionExt>::abi_encode_output
abi_encode_output(f, values) == encode_typeck(f.outputs, values)

AbiEncodeInput ==
    /\ pc = "function"
    /\ res' = abi_encode_input(aux, val)
    /\ pc' = "encoded_input"
    /\ UNCHANGED <<ty, val, data, text, tmap, aux>>

AbiEncodeInputRaw ==
    /\ pc = "function"
    /\ res' = abi_encode_input_raw(aux, val)
    /\ pc' = "encoded_input_raw"
    /\ UNCHANGED <<ty, val, data, text, tmap, aux>>

AbiEncodeOutput ==
    /\ pc = "function"
    /\ res' = abi_encode_output(aux, val)
    /\ pc' = "encoded_output"
    /\ UNCHANGED <<ty, val, data, text, tmap, aux>>

(***************************************************************************)
(* Specification of the type check before encoding                         *)
(***************************************************************************)
\* Most declared inputs of a drawn function, and most values passed to it.
MaxParams == 2

ParamChoices2 ==
    { Param(TypeSpecifier(RootStem("bool"), <<>>)),
      Param(TypeSpecifier(RootStem("uint8"), <<>>)),
      Param(TypeSpecifier(TupleStem(<<TypeSpecifier(RootStem("bool"), <<>>),
                                      TypeSpecifier(RootStem("bool"), <<>>)>>), <<>>)),
      Param(TypeSpecifier(RootStem("uint7"), <<>>)) }

ValueChoices ==
    { VBool(TRUE), VUint(WordOfNat(5), 8), VUint(WordOfNat(5), 16),
      VTuple(<<VBool(TRUE), VBool(FALSE)>>), VTuple(<<VBool(TRUE)>>) }

InitFunction ==
    /\ pc = "function"
    /\ aux \in [name : {"f"}, inputs : SeqsUpTo(ParamChoices2, MaxParams),
                outputs : SeqsUpTo(ParamChoices2, 1)]
    /\ val \in SeqsUpTo(ValueChoices, MaxParams)
    /\ ty = None /\ data = None /\ text = None /\ tmap = None /\ res = None

NextFunction == AbiEncodeInput \/ AbiEncodeInputRaw \/ AbiEncodeOutput

SpecFunction == InitFunction /\ [][NextFunction]_vars

\* The params that the finished call was checked against.
CheckedParams == IF pc = "encoded_output" THEN aux.outputs ELSE aux.inputs

Encoded == pc \in {"encoded_input", "encoded_input_raw", "encoded_output"}

\* The encoding that a successful call returns.
Encoding ==
    IF pc = "encoded_input" THEN function_selector(aux) \o encode_seq(val) ELSE encode_seq(val)

\* Every value has the shape of the type of its param, in order.
WellTyped ==
    /\ Len(val) = Len(CheckedParams)
    /\ \A i \in 1..Len(val) :
          /\ param_resolve(CheckedParams[i]).ok
          /\ SameShape(param_resolve(CheckedParams[i]).v, val[i])

\* Every value is accepted by matches for the type of its param, in order.
AcceptedByMatches ==
    /\ Len(val) = Len(CheckedParams)
    /\ \A i \in 1..Len(val) :
          /\ param_resolve(CheckedParams[i]).ok
          /\ matches(param_resolve(CheckedParams[i]).v, val[i])

\* C25: the three encoders fail, with EncodeLengthMismatch when the number
\* of values is not the number of params, when a value does not match the
\* type of its param, and return the encoding only when every value matches
\* its param in order.
C25_TypeChecked ==
    Encoded =>
        /\ Len(val) # Len(CheckedParams) =>
              res = EncodeLengthMismatch(Len(CheckedParams), Len(val))
        /\ res.ok <=> WellTyped
        /\ res.ok => res.v = Encoding

\* The same with the answer of matches in place of the shape relation.
CheckedByMatches ==
    Encoded =>
        /\ Len(val) # Len(CheckedParams) =>
              res = EncodeLengthMismatch(Len(CheckedParams), Len(val))
        /\ res.ok <=> AcceptedByMatches
        /\ res.ok => res.v = Encoding

(***************************************************************************)
(* Specification of encode_data and hash_struct on any primary type        *)
(***************************************************************************)
\* Primary types that name no struct: two primitive types and a name that
\* the types do not define.
OtherPrimaryTypes == {"uint256", "bool", "Missing"}

InitPrimary ==
    /\ pc = "typed"
    /\ tmap \in Documents
    /\ text \in DOMAIN tmap \cup OtherPrimaryTypes
    /\ val \in Messages
    /\ ty = None /\ data = None /\ res = None /\ aux = None

NextPrimary == EncodeData \/ HashStruct

SpecPrimary == InitPrimary /\ [][NextPrimary]_vars

\* The call returned an error.
ReturnedErr == ~res.ok /\ "err" \in DOMAIN res

\* C26: encode_data and hash_struct return an Err, and do not panic, when
\* the primary type does not resolve to a struct.
C26_ErrNotPanic ==
    (pc \in {"encode_data", "hash_struct"} /\ text \notin DOMAIN tmap) => ReturnedErr

\* On a primary type that names a struct, neither call panics.
StructNeverPanics ==
    (pc \in {"encode_data", "hash_struct"} /\ text \in DOMAIN tmap) =>
        "panic" \notin DOMAIN res

(***************************************************************************)
(* usize arithmetic of minimum_words                                       *)
(***************************************************************************)
\* Bytes of a usize. A usize of the model is the function of its bytes,
\* least significant first.
UsizeBytes == 8

\* The usize of a natural number below 2^31.
usize(n) ==
    <<n % 256, (n \div 256) % 256, (n \div 65536) % 256, (n \div 16777216) % 256,
      0, 0, 0, 0>>

RECURSIVE add_carry(_, _, _)
add_carry(a, b, i) == IF i = 0 THEN 0 ELSE (a[i] + b[i] + add_carry(a, b, i - 1)) \div 256

\* a + b modulo 2^64, and whether the sum passed 2^64.
add_byte(a, b, i) == (a[i] + b[i] + add_carry(a, b, i - 1)) % 256

wrapping_add(a, b) ==
    <<add_byte(a, b, 1), add_byte(a, b, 2), add_byte(a, b, 3), add_byte(a, b, 4),
      add_byte(a, b, 5), add_byte(a, b, 6), add_byte(a, b, 7), add_byte(a, b, 8)>>

add_overflows(a, b) == add_carry(a, b, UsizeBytes) > 0

\* Sum of the byte products of weight 256^(k - 1).
column(a, b, k) ==
    SumSeq([i \in 1..k |->
        IF i <= UsizeBytes /\ k + 1 - i <= UsizeBytes THEN a[i] * b[k + 1 - i] ELSE 0])

RECURSIVE mul_carry(_, _, _)
mul_carry(a, b, k) == IF k = 0 THEN 0 ELSE (column(a, b, k) + mul_carry(a, b, k - 1)) \div 256

\* a * b modulo 2^64, and whether the product passed 2^64.
mul_byte(a, b, k) == (column(a, b, k) + mul_carry(a, b, k - 1)) % 256

wrapping_mul(a, b) ==
    <<mul_byte(a, b, 1), mul_byte(a, b, 2), mul_byte(a, b, 3), mul_byte(a, b, 4),
      mul_byte(a, b, 5), mul_byte(a, b, 6), mul_byte(a, b, 7), mul_byte(a, b, 8)>>

mul_overflows(a, b) ==
    \/ mul_carry(a, b, UsizeBytes) > 0
    \/ \E k \in (UsizeBytes + 1)..(2 * UsizeBytes - 1) : column(a, b, k) > 0

\* a < b
usize_lt(a, b) ==
    \E i \in 1..UsizeBytes : a[i] < b[i] /\ \A j \in (i + 1)..UsizeBytes : a[j] = b[j]

\* A usize result: its value and whether an operation on the way overflowed.
Words(v, overflow) == [v |-> v, overflow |-> overflow]

\* size * v.minimum_words()
mul_usize(a, m) ==
    Words(wrapping_mul(a, m.v), m.overflow \/ mul_overflows(a, m.v))

mul_words(size, inner) ==
    CHOOSE r \in {mul_usize(a, m) : a \in {usize(size)}, m \in {inner}} : TRUE

\* One step of Iterator::sum.
add_usize(a, m) ==
    Words(wrapping_add(a.v, m.v), a.overflow \/ m.overflow \/ add_overflows(a.v, m.v))

add_words(acc, item) ==
    CHOOSE r \in {add_usize(a, m) : a \in {acc}, m \in {item}} : TRUE

\* minimum_words in usize arithmetic.
RECURSIVE usize_minimum_words(_)
RECURSIVE sum_words(_, _)
usize_minimum_words(t) ==
    CASE t.k = "FixedArray" -> mul_words(t.size, usize_minimum_words(t.inner))
      [] t.k \in {"Tuple", "CustomStruct"} -> sum_words(t.elems, Len(t.elems))
      [] OTHER -> Words(usize(1), FALSE)

sum_words(elems, n) ==
    IF n = 0 THEN Words(usize(0), FALSE)
    ELSE add_words(sum_words(elems, n - 1), usize_minimum_words(elems[n]))

\* The process ends without a result.
Abort(msg) == [ok |-> FALSE, abort |-> msg]

\* What a call of minimum_words does: with overflow checks (a debug build) an
\* overflowing operation panics, without them the value wraps.
minimum_words_outcome(t, overflow_checks) ==
    IF overflow_checks /\ usize_minimum_words(t).overflow
    THEN Panic("arithmetic overflow")
    ELSE Ok(usize_minimum_words(t).v)

\* The outcomes of abi_decode. A type that passes the size check with a
\* wrapped minimum needs more tokens than memory holds: the reservation of
\* empty_dyn_token fails or the process runs out of memory.
abi_decode_outcomes(t, input, overflow_checks) ==
    IF is_zst(t) THEN {Ok(zero_sized_value(t))}
    ELSE IF ~minimum_words_outcome(t, overflow_checks).ok
    THEN {minimum_words_outcome(t, overflow_checks)}
    ELSE IF usize_lt(usize(remaining_words(DecoderNew(input))),
                     minimum_words_outcome(t, overflow_checks).v)
    THEN {Err("Overrun")}
    ELSE IF usize_minimum_words(t).overflow
    THEN {Err("TryReserveError"), Abort("out of memory")}
    ELSE {abi_decode(t, input).res}

MinimumWords ==
    /\ pc = "sized"
    /\ res' = minimum_words_outcome(ty, aux.overflow_checks)
    /\ pc' = "minimum"
    /\ UNCHANGED <<ty, val, data, text, tmap, aux>>

AbiDecodeSized ==
    /\ pc = "sized"
    /\ res' \in abi_decode_outcomes(ty, data, aux.overflow_checks)
    /\ pc' = "decoded"
    /\ UNCHANGED <<ty, val, data, text, tmap, aux>>

(***************************************************************************)
(* Specification of minimum_words on nested fixed arrays                   *)
(***************************************************************************)
\* Dimensions of the deepest fixed array drawn.
MaxDims == 3

\* Sizes of a dimension: 2^21 and 2^22 multiply to 2^64 in three dimensions.
DimSizes == {1, 2, 2097152, 4194304}

RECURSIVE FixedArrays(_)
FixedArrays(n) ==
    IF n = 0 THEN {TUint(32)}
    ELSE FixedArrays(n - 1) \cup {TFixedArray(t, s) : t \in FixedArrays(n - 1), s \in DimSizes}

\* Tuples whose members are small, or fill half of the usize range each.
HalfRange == TFixedArray(TFixedArray(TFixedArray(TUint(32), 2097152), 2097152), 2097152)

SizedTuples ==
    {TTuple(ts) : ts \in SeqsUpTo({TUint(32), TFixedArray(TUint(32), 2), HalfRange}, 2)}

SizedTypes == FixedArrays(MaxDims) \cup SizedTuples

\* Words of the longest input drawn.
MaxSizedWords == 2

InitSized ==
    /\ pc = "sized"
    /\ ty \in SizedTypes
    /\ data \in {Flatten(Repeat(WordOfNat(1), n)) : n \in 0..MaxSizedWords}
    /\ aux \in [overflow_checks : BOOLEAN]
    /\ val = None /\ text = None /\ tmap = None /\ res = None

NextSized == MinimumWords \/ AbiDecodeSized

SpecSized == InitSized /\ [][NextSized]_vars

\* The mathematical minimum of a type, exact below Huge and Huge from there.
RECURSIVE ExactWords(_)
RECURSIVE ExactSum(_, _)
ExactWords(t) ==
    CASE t.k = "FixedArray" -> SatMul(t.size, ExactWords(t.inner))
      [] t.k \in {"Tuple", "CustomStruct"} -> ExactSum(t.elems, Len(t.elems))
      [] OTHER -> 1

ExactSum(elems, n) ==
    IF n = 0 THEN 0
    ELSE IF ExactSum(elems, n - 1) >= Huge - ExactWords(elems[n]) THEN Huge
    ELSE ExactSum(elems, n - 1) + ExactWords(elems[n])

\* C27: minimum_words returns the exact product and sum, without wrapping,
\* and abi_decode rejects with Overrun every type that is not zero-sized and
\* whose true minimum exceeds the words of the input.
C27_ExactMinimum ==
    /\ pc = "minimum" =>
         /\ res.ok
         /\ IF ExactWords(ty) < Huge THEN res.v = usize(ExactWords(ty))
            ELSE ~usize_lt(res.v, usize(Huge))
    /\ (pc = "decoded" /\ ~is_zst(ty) /\ ExactWords(ty) > Len(data) \div WordBytes) =>
         res = Err("Overrun")

\* While no operation overflows, minimum_words is exact and the size check
\* rejects every input shorter than it.
ExactUnlessOverflow ==
    ~usize_minimum_words(ty).overflow =>
        /\ pc = "minimum" =>
             /\ res.ok
             /\ IF ExactWords(ty) < Huge THEN res.v = usize(ExactWords(ty))
                ELSE ~usize_lt(res.v, usize(Huge))
        /\ (pc = "decoded" /\ ~is_zst(ty) /\ ExactWords(ty) > Len(data) \div WordBytes) =>
             res = Err("Overrun")

\* The usize arithmetic agrees with the unbounded one on small types.
SmallAgrees ==
    ExactWords(ty) < Huge =>
        /\ ~usize_minimum_words(ty).overflow
        /\ usize_minimum_words(ty).v = usize(minimum_words(ty))

(***************************************************************************)
(* DynYlmEvent::decode_log_parts (dynamic/event.rs)                        *)
(***************************************************************************)
EventSignatureMismatch(expected, actual) ==
    Err([k |-> "EventSignatureMismatch", expected |-> expected, actual |-> actual])

\* DynYlmType::decode_event_topic
decode_event_topic(t, topic) ==
    IF t.k \in WordKinds THEN detokenize(t, TokWord(topic)).v ELSE VFixedBytes(topic, 32)

num_topics(event) == Len(event.indexed) + as_usize(event.topic_0.some)

\* DynYlmValue::into_fixed_seq
into_fixed_seq(value) ==
    IF value.k \in {"FixedArray", "Tuple", "CustomStruct"} THEN Some(value.v) ELSE NoOption

\* The values of zip(indexed, topics.take(indexed.len())).
indexed_values(event, topics) ==
    [i \in 1..Min(Len(event.indexed), Len(topics)) |->
        decode_event_topic(event.indexed[i], topics[i])]

\* The end of decode_log_parts, from the decoded body on.
decoded_event(event, indexed, remaining, body, validate) ==
    IF ~body.ok THEN body
    ELSE IF ~into_fixed_seq(body.v).some THEN Panic("body is a tuple")
    ELSE IF validate /\ remaining > 0
    THEN TopicLengthMismatch(num_topics(event), num_topics(event) + remaining)
    ELSE Ok([indexed |-> indexed, body |-> into_fixed_seq(body.v).v])

\* decode_log_parts from the indexed topics on.
decode_indexed(event, topics, input, validate) ==
    decoded_event(event, indexed_values(event, topics),
                  Len(topics) - Min(Len(event.indexed), Len(topics)),
                  abi_decode_sequence(event.body, input).res, validate)

\* The topics are the items the iterator yields; exact says that its size
\* hint is (n, Some(n)).
decode_log_parts(event, topics, exact, input, validate) ==
    IF validate /\ exact /\ Len(topics) # num_topics(event)
    THEN TopicLengthMismatch(num_topics(event), Len(topics))
    ELSE IF ~event.topic_0.some THEN decode_indexed(event, topics, input, validate)
    ELSE IF topics = <<>>
    THEN IF validate THEN TopicLengthMismatch(num_topics(event), 0)
         ELSE decode_indexed(event, topics, input, validate)
    ELSE IF validate /\ topics[1] # event.topic_0.v
    THEN EventSignatureMismatch(event.topic_0.v, topics[1])
    ELSE decode_indexed(event, Tail(topics), input, validate)

\* The topics of a LogData are a slice: its iterator knows its length.
decode_log(event, log_topics, log_data, validate) ==
    decode_log_parts(event, log_topics, TRUE, log_data, validate)

DecodeLogParts ==
    /\ pc = "log"
    /\ res' = decode_log_parts(aux.event, aux.topics, aux.exact, data, aux.validate)
    /\ pc' = "decoded_parts"
    /\ UNCHANGED <<ty, val, data, text, tmap, aux>>

DecodeLog ==
    /\ pc = "log"
    /\ res' = decode_log(aux.event, aux.topics, data, aux.validate)
    /\ pc' = "decoded_log"
    /\ UNCHANGED <<ty, val, data, text, tmap, aux>>

(***************************************************************************)
(* Specification of decode_log_parts                                       *)
(***************************************************************************)
\* Indexed parameters of the largest event, and topics of the longest log.
MaxIndexed == 2

MaxTopics == 3

\* The topic of the event's signature, and another topic.
Topic0 == WordOfNat(64)

LogTopics == {Topic0, WordOfNat(1)}

\* The events DynYlmEvent::new builds.
LogEvents ==
    { new_unchecked(t0, indexed, body) :
        t0 \in {NoOption, Some(Topic0)},
        indexed \in SeqsUpTo({TBool, TUint(8)}, MaxIndexed),
        body \in {TTuple(<<>>), TTuple(<<TBool>>)} }

InitLog ==
    /\ pc = "log"
    /\ aux \in [event : LogEvents, topics : SeqsUpTo(LogTopics, MaxTopics),
                exact : BOOLEAN, validate : BOOLEAN]
    /\ data \in {<<>>, WordOfNat(1)}
    /\ ty = None /\ val = None /\ text = None /\ tmap = None /\ res = None

NextLog == DecodeLogParts \/ DecodeLog

SpecLog == InitLog /\ [][NextLog]_vars

LogDecoded == pc \in {"decoded_parts", "decoded_log"}

RightTopics ==
    /\ Len(aux.topics) = num_topics(aux.event)
    /\ aux.event.topic_0.some => aux.topics[1] = aux.event.topic_0.v

IsTopicLengthMismatch(r) ==
    ~r.ok /\ "err" \in DOMAIN r /\ r.err \in [k : {"TopicLengthMismatch"}, expected : Nat, actual : Nat]

\* C28: with validate, decode_log_parts returns Ok only for exactly
\* indexed.len() + (1 if not anonymous) topics whose first is topic_0 for a
\* non-anonymous event, with one indexed value per indexed parameter; a
\* wrong number of topics gives TopicLengthMismatch; for every iterator.
C28_ValidatedTopics ==
    (LogDecoded /\ aux.validate) =>
        /\ res.ok => (RightTopics /\ Len(res.v.indexed) = Len(aux.event.indexed))
        /\ Len(aux.topics) # num_topics(aux.event) => IsTopicLengthMismatch(res)

\* The same for the iterators that report an exact size hint.
ExactHintValidated ==
    (LogDecoded /\ aux.validate /\ (aux.exact \/ pc = "decoded_log")) =>
        /\ res.ok => (RightTopics /\ Len(res.v.indexed) = Len(aux.event.indexed))
        /\ Len(aux.topics) # num_topics(aux.event) => IsTopicLengthMismatch(res)
        /\ (Len(aux.topics) = num_topics(aux.event) /\ ~RightTopics) =>
             (~res.ok /\ res.err.k = "EventSignatureMismatch")

\* Without an exact size hint, too many topics are still never accepted.
TooManyRejected ==
    (LogDecoded /\ aux.validate /\ Len(aux.topics) > num_topics(aux.event)) => ~res.ok

(***************************************************************************)
(* Widths of decoded integers                                              *)
(***************************************************************************)
\* The word is the zero extension of an n-bit value (n a multiple of 8).
UintFits(w, n) == \A i \in 1..(WordBytes - n \div 8) : w[i] = 0

\* The word is the sign extension of an n-bit value (n a multiple of 8).
IntFits(w, n) ==
    \A i \in 1..(WordBytes - n \div 8) :
        w[i] = IF w[WordBytes - n \div 8 + 1] >= 128 THEN 255 ELSE 0

\* Every integer of the value fits the width of its tag.
RECURSIVE FitsWidth(_)
FitsWidth(value) ==
    CASE value.k = "Uint" -> UintFits(value.v, value.size)
      [] value.k = "Int" -> IntFits(value.v, value.size)
      [] value.k \in {"Array", "FixedArray", "Tuple", "CustomStruct"} ->
            \A i \in 1..Len(value.v) : FitsWidth(value.v[i])
      [] OTHER -> TRUE

\* C29: every integer returned by abi_decode fits its declared width; a word
\* that is not the zero or sign extension of an n-bit value is rejected.
C29_DecodedFitsWidth ==
    (Decoded /\ res.res.ok) => FitsWidth(res.res.v)

(***************************************************************************)
(* Specification of the two coercions to FixedBytes                        *)
(***************************************************************************)
\* Sizes of the FixedBytes types drawn: within a word, and one beyond it.
FixedSizes == {1, 2, WordBytes + 1}

InitFixedBytes ==
    /\ pc = "text"
    /\ ty \in {TFixedBytes(n) : n \in FixedSizes}
    /\ aux \in [prefix : HexPrefixes, digits : SeqsUpTo(HexDigitTexts, MaxHex), tail : HexTails]
    /\ text = aux.prefix \o JoinAll(aux.digits) \o aux.tail
    /\ val = JStr(text)
    /\ data = None /\ tmap = None /\ res = None

NextFixedBytes == CoerceStr \/ CoerceJson

SpecFixedBytes == InitFixedBytes /\ [][NextFixedBytes]_vars

\* The value is the n bytes that the drawn digits denote, left-aligned in a
\* zero-padded word.
ExactWord(value, n) ==
    /\ value.k = "FixedBytes" /\ value.size = n
    /\ Denotes(Take(value.v, n), aux.digits)
    /\ \A i \in (n + 1)..WordBytes : value.v[i] = 0

\* C30: coerce_json on FixedBytes(n) succeeds only when n <= 32 and the JSON
\* string is hex that decodes to exactly n bytes, and then returns those
\* bytes left-aligned in a zero-padded word.
C30_JsonExactLength ==
    (pc = "compared" /\ data.ok) =>
        /\ ty.size <= WordBytes
        /\ HexOnly
        /\ ExactWord(data.v, ty.size)

\* The text coercion takes exactly 2n hex digits, for n <= 32.
TextExactLength ==
    (pc \in {"coerced", "compared"} /\ res.ok) =>
        /\ ty.size <= WordBytes
        /\ HexOnly
        /\ ExactWord(res.v, ty.size)

\* Whatever the text coercion accepts, the JSON coercion accepts as the same
\* value.
JsonTakesText ==
    (pc = "compared" /\ res.ok) => data = Ok(res.v)

====
